---- MODULE Spec2Model ----
(***************************************************************************)
(* Model of k8s-lifecycle: the lifecycle orchestrator of src/src/probes.ts *)
(* (phase state machine, probe evaluation, three-phase shutdown sequencer) *)
(* and the per-server connection tracker (ServerTracker, whose source is   *)
(* reproduced in src/README.md lines 198-345).                             *)
(*                                                                         *)
(* JavaScript runs one synchronous segment at a time.  Every action below  *)
(* is one such segment: the code from an entry point (or from the          *)
(* resumption of an await) up to the next await or return.  A suspended    *)
(* async call is a record in the bag tasks.  A continuation whose awaited  *)
(* promises are all settled is a microtask: it runs before any timer       *)
(* fires and before time passes (MicrotaskPending).  Calls made by user    *)
(* code may happen between any two segments, and so may what runs right    *)
(* after user code: the listeners the library has on an event for which    *)
(* user code has a listener registered earlier (SIGTERM, 'connection',     *)
(* 'request', 'close') and the 'finish' listeners and end callbacks of     *)
(* responses (they run ahead of the promise continuations).                *)
(* Time is in milliseconds.                                                *)
(***************************************************************************)
EXTENDS Integers, Sequences, FiniteSets, Bags, TLC

\* ------------------------------------------------------------------ bounds
MaxTrackers == 1          \* servers registered through addHttpServer
MaxSockets == 1           \* sockets the hosted servers ever accept
MaxStateChangeCbs == 2    \* listeners registered through onStateChange
MaxReadyChecks == 2       \* checks registered through onReadyCheck
MaxShutdownCbs == 2       \* handlers registered through onShutdown
MaxShutdownChecks == 1    \* gates registered through addShutdownReadyCheck
MaxStarts == 2            \* invocations of startShutdown (direct or by signal)
MaxProbes == 2            \* readiness evaluations begun
MaxPipelined == 2         \* requests of one socket whose responses are unsent
TickStep == 1000          \* a step of time while no timer is armed, ms

\* ------------------------------------------------------- program constants
ConnectionCheckInterval == 1000
ForceExitTimeout == 5000

Startup == "starting"
Running == "run"
Phase1 == "shutdownReq"
Phase2 == "shuttingDown"
Phase3 == "final"
Phase == {Startup, Running, Phase1, Phase2, Phase3}

\* position of a phase in the declaration order of the enum
PhaseOrd(p) ==
    CASE p = Startup -> 0
      [] p = Running -> 1
      [] p = Phase1 -> 2
      [] p = Phase2 -> 3
      [] p = Phase3 -> 4

NoExit == <<>>            \* the process has not exited; else <<code>>
Sock == 1..MaxSockets
Undef == -1               \* an unset $$id / timer handle

VARIABLES
    \* ---- module state of probes.ts
    phase, shutdownRequested, shutdownWatchTimeout, failCase, intCalled,
    httpTrackers,          \* sequence of ServerTracker records
    readyChecks, stateChangeCbs, shutdownCbs, shutdownCheckCbs, \* list lengths
    ReadinessProbeInterval, ClosingTimeout, isDev,
    throwers,              \* the registered callbacks include ones that throw
    HealthCheckURLs,       \* the probe paths: test, ready, live
    destroyThrows,         \* socket.destroy() and server.close() may throw
    onException,           \* the exception sink
    \* ---- module state of serverTracker.ts and the sockets
    nextId, socks,
    \* ---- the runtime: event loop, timers, process
    tasks,                 \* bag of suspended async calls
    pendingCbs,            \* unsettled promises returned by state-change listeners
    timers,                \* armed timers: set of [id, kind, rem]
    exitCode,              \* NoExit, or <<code>> once process.exit(code) ran
    unhandled,             \* a rejected promise of the library has no handler
    \* ---- observation
    transSeq,              \* number of phase transitions performed
    fanout,                \* listener invocations made by the last step
    returned,              \* readiness results returned by the last step
    liveReturned,          \* liveness results returned by the last step
    readyCheckCalls,       \* ready-checks invoked by the last step
    requested,             \* 'request' events handled by the last step
    shutdownCbCalls,       \* onShutdown handlers invoked by the last step
    shutdownCbRuns,        \* times the onShutdown handlers were invoked
    starts,                \* invocations of startShutdown so far
    probes,                \* readiness evaluations begun so far
    sigterms,              \* SIGTERM signals delivered so far
    faultCalls,            \* calls of setUnrecoverableError so far
    sinceShutdown,         \* ms since the first startShutdown (saturating), or Undef
    sinceDraining,         \* ms since Draining was first entered (saturating), or Undef
    sinceFinal,            \* ms since Final was first entered (saturating), or Undef
    direct                 \* the last step was a call user code made on a tracker

orchVars == <<phase, shutdownRequested, shutdownWatchTimeout, failCase, intCalled,
              httpTrackers, readyChecks, stateChangeCbs, shutdownCbs,
              shutdownCheckCbs, ReadinessProbeInterval, ClosingTimeout, isDev,
              throwers, HealthCheckURLs, destroyThrows, onException>>
trackerVars == <<nextId, socks>>
runVars == <<tasks, pendingCbs, timers, exitCode, unhandled>>
vars == <<orchVars, trackerVars, runVars,
          transSeq, fanout, returned, liveReturned, readyCheckCalls,
          requested, shutdownCbCalls, shutdownCbRuns, starts, probes,
          sigterms, faultCalls, sinceShutdown, sinceDraining, sinceFinal,
          direct>>

envVars == <<readyChecks, stateChangeCbs, shutdownCbs, shutdownCheckCbs,
             ReadinessProbeInterval, ClosingTimeout, isDev, throwers,
             HealthCheckURLs, destroyThrows, onException>>

Min(a, b) == IF a < b THEN a ELSE b

\* ======================================================== ServerTracker
\* A socket: the three fields the tracker attaches to it, plus what the
\* transport knows (open, destroy() called) and what the responses know:
\* inflight lists, in order of arrival, the requests the tracker let pass
\* and whose responses have not emitted 'finish' ("check": for a
\* health-check URL of the tracker, "other": for another URL); refusing
\* tells that a 503 refusal is being flushed.
NewSocket == [id |-> Undef, idle |-> FALSE, isCheck |-> FALSE,
              state |-> "new", destroyed |-> FALSE, closeLs |-> FALSE,
              inflight |-> <<>>, refusing |-> FALSE]

\* a response on socket s is unfinished; one for a URL of the given kind is
Serving(sk, s) == sk[s].inflight # <<>>
ServingKind(sk, s, kind) ==
    \E i \in 1..Len(sk[s].inflight) : sk[s].inflight[i] = kind

\* new ServerTracker(server, opts): opts.healthCheckUrls is kept as given;
\* held tells that the program made the tracker itself and so holds a
\* reference to it (those addHttpServer makes are private to probes.ts)
NewTracker(listening, urls, held) ==
    [isShuttingDown |-> FALSE, listening |-> listening, connections |-> {},
     heatlhCheckUrls |-> urls, held |-> held]

\* isValidCheck(req): the URL is one of the tracker's health-check URLs
isValidCheck(t, url) == url \in t.heatlhCheckUrls

\* the server a socket is accepted by
ServerOf(s) == ((s - 1) % MaxTrackers) + 1

\* Map.prototype.set / delete / get on a set of <<id, socket>> entries
MapSet(c, id, s) == {e \in c : e[1] # id} \cup {<<id, s>>}
MapDelete(c, id) == {e \in c : e[1] # id}

connectionCount(t) == Cardinality(t.connections)

activeConnectionCount(t, sk) ==
    Cardinality({e \in t.connections : ~sk[e[2]].idle /\ ~sk[e[2]].isCheck})

\* sock.destroy() on every socket of the set S
DestroyAll(sk, S) ==
    [s \in Sock |-> IF s \in S THEN [sk[s] EXCEPT !.destroyed = TRUE] ELSE sk[s]]

\* requestShutdown() that destroys the busy connections too
requestShutdownEvery(t, sk) ==
    [tracker |-> [t EXCEPT !.isShuttingDown = TRUE, !.connections = {}],
     socks |-> DestroyAll(sk, {e[2] : e \in t.connections})]

\* requestShutdown(): returns the tracker and the sockets afterwards
requestShutdown(t, sk) ==
    LET idle == {e \in t.connections : sk[e[2]].idle}
    IN  [tracker |-> [t EXCEPT !.isShuttingDown = TRUE,
                               !.connections = t.connections \ idle],
         socks |-> DestroyAll(sk, {e[2] : e \in idle})]

\* forceClose() that spares the sockets serving a request
forceCloseIdleOnly(t, sk) ==
    LET idle == {e \in t.connections : sk[e[2]].idle}
    IN  [tracker |-> [t EXCEPT !.listening = FALSE,
                               !.isShuttingDown = TRUE,
                               !.connections = t.connections \ idle],
         socks |-> DestroyAll(sk, {e[2] : e \in idle})]

\* forceClose()
forceClose(t, sk) ==
    [tracker |-> [t EXCEPT !.listening = FALSE,
                           !.isShuttingDown = TRUE,
                           !.connections = {}],
     socks |-> DestroyAll(sk, {e[2] : e \in t.connections})]

\* what throws inside a call of a tracker: nothing, the first
\* socket.destroy() it makes, or its server.close()
NoThrow == "none"
ThrowChoices == IF destroyThrows THEN {NoThrow, "destroy", "close"} ELSE {NoThrow}

\* requestShutdown() is left by an exception: an idle socket is to be destroyed
requestShutdownThrows(t, sk, thr) ==
    thr = "destroy" /\ \E e \in t.connections : sk[e[2]].idle

\* forceClose() is left by an exception: by close() when the server is
\* listening, else by the first destroy()
forceCloseThrows(t, thr) ==
    \/ thr = "close" /\ t.listening
    \/ thr = "destroy" /\ t.connections # {}

\* the tracker as the exception leaves it
requestShutdownThrown(t) == [t EXCEPT !.isShuttingDown = TRUE]
forceCloseThrown(t, thr) ==
    IF thr = "close" THEN t
    ELSE [t EXCEPT !.listening = FALSE, !.isShuttingDown = TRUE]

\* onConnection(sock): `!sock.$$id` is true for an unset id and for id 0
onConnection(t, sk, nid, s) ==
    IF sk[s].id = Undef \/ sk[s].id = 0
    THEN [tracker |-> [t EXCEPT !.connections = MapSet(@, nid, s)],
          socks |-> [sk EXCEPT ![s].id = nid, ![s].idle = TRUE,
                               ![s].closeLs = TRUE],
          nextId |-> nid + 1,
          found |-> TRUE, threw |-> FALSE]
    ELSE [tracker |-> t, socks |-> sk, nextId |-> nid,
          found |-> (\E e \in t.connections : e[1] = sk[s].id),
          threw |-> FALSE]

\* onRequest(req, res) for a request on socket s; check = isValidCheck(req);
\* sent tells that the application's listener, which runs first, has sent
\* the head of the response already: res.writeHead(503) then throws
\* (threw) and leaves the refusal branch before the record is deleted
onRequest(t, sk, nid, s, check, sent) ==
    LET c == onConnection(t, sk, nid, s)
        sk1 == [c.socks EXCEPT ![s].isCheck = check]
    IN  IF ~c.found
        THEN c
        ELSE IF c.tracker.isShuttingDown /\ ~check /\ sent
        THEN [c EXCEPT !.socks = sk1, !.threw = TRUE]
        ELSE IF c.tracker.isShuttingDown /\ ~check
        THEN [c EXCEPT !.socks = [sk1 EXCEPT ![s].refusing = TRUE],
                       !.tracker.connections = MapDelete(@, sk1[s].id)]
        ELSE [c EXCEPT !.socks = [sk1 EXCEPT ![s].idle = FALSE,
                                             ![s].inflight =
                                                Append(@, IF check THEN "check" ELSE "other")]]


\* ============================================================ the runtime
Alive == exitCode = NoExit

\* the exception sinks: none, console.warn (probes.ts 26), and a function
\* given to setOnException
NoSink == "none"
ConsoleWarn == "console.warn"

\* a suspended async call: fn is the function, pc the await it is suspended
\* at, t the transition whose listeners it awaits, n the number of user
\* promises it still awaits, ok the verdict over those already settled,
\* active the connection count it read before suspending, began the value
\* shutdownRequested had when the call began, res the value or exception
\* the promise it awaits was settled with
Task(fn, pc, t, n, ok, active, began) ==
    [fn |-> fn, pc |-> pc, t |-> t, n |-> n, ok |-> ok, active |-> active,
     began |-> began,
     res |-> [fn |-> "", healthy |-> FALSE, message |-> "", statusCode |-> 0,
              began |-> FALSE, rejected |-> FALSE, reported |-> NoSink]]

\* Promise.allSettled over the awaited promises has resolved
Runnable(k) ==
    IF k.pc = "phase"
    THEN \A p \in pendingCbs : p.t # k.t
    ELSE k.n = 0

MicrotaskPending == \E k \in BagToSet(tasks) : Runnable(k)

AddTask(b, k) == b (+) SetToBag({k})
RemoveTask(b, k) == b (-) SetToBag({k})

\* what a user callback does when it is invoked: it returns (a value, or a
\* promise that is already settled), returns a promise that is still
\* pending, or throws before it returns
Outcomes == {"settled", "pending"}
Throws == "throws"
CbOutcomes == IF throwers THEN Outcomes \cup {Throws} ELSE Outcomes
CheckOutcomes == {"true", "bad", "pending"}

\* the part of the state a synchronous segment of probes.ts works on; ent
\* collects the phases the segment assigns to the variable phase
Cur ==
    [phase |-> phase, sr |-> shutdownRequested, pend |-> pendingCbs,
     seq |-> transSeq, fan |-> <<>>, tasks |-> tasks, starts |-> starts,
     await |-> 0, threw |-> FALSE, unh |-> unhandled, cbs |-> <<>>,
     ent |-> {}]

Commit(m) ==
    /\ phase' = m.phase
    /\ shutdownRequested' = m.sr
    /\ pendingCbs' = m.pend
    /\ transSeq' = m.seq
    /\ fanout' = m.fan
    /\ tasks' = m.tasks
    /\ starts' = m.starts
    /\ unhandled' = m.unh
    /\ shutdownCbCalls' = m.cbs
    /\ liveReturned' = {}
    /\ readyCheckCalls' = <<>>
    /\ requested' = {}
    /\ UNCHANGED faultCalls
    /\ direct' = FALSE
    /\ sinceShutdown' = IF sinceShutdown = Undef /\ m.sr THEN 0 ELSE sinceShutdown
    /\ sinceDraining' = IF sinceDraining = Undef /\ Phase2 \in m.ent
                        THEN 0 ELSE sinceDraining
    /\ sinceFinal' = IF sinceFinal = Undef /\ Phase3 \in m.ent
                     THEN 0 ELSE sinceFinal

\* `phase === newPhase`, the test that makes updatePhase a no-op
SamePhaseIgnored(m, newPhase) == FALSE
SamePhase(m, newPhase) == m.phase = newPhase

RECURSIVE FanOut(_, _, _, _, _, _)
RECURSIVE updatePhase(_, _, _, _)
RECURSIVE startShutdown(_, _, _)

\* stateChangeCbs.map(cb => cb(phase, old)), from listener i on.  Listener
\* re (0: none) calls startShutdown() in its body, without awaiting it;
\* every listener does what beh says.  The first argument is read from the
\* variable phase at each call; sr is the value shutdownRequested has at
\* that moment.  A listener that throws ends the map: threw
\* tells the caller that the fan-out was left by an exception.
FanOut(m, t, old, i, beh, re) ==
    IF i > stateChangeCbs THEN m
    ELSE LET m1 == [m EXCEPT !.fan = Append(@, [t |-> t, idx |-> i,
                                                new |-> m.phase, old |-> old,
                                                sr |-> m.sr])]
             n == IF i = re THEN startShutdown(m1, beh, 0) ELSE m1
             m2 == [n EXCEPT !.threw = FALSE, !.unh = @ \/ n.threw]
             m3 == IF beh[i] = "pending"
                   THEN [m2 EXCEPT !.pend = @ \cup {[t |-> t, idx |-> i]}]
                   ELSE m2
         IN  IF beh[i] = Throws
             THEN [m2 EXCEPT !.threw = TRUE]
             ELSE FanOut(m3, t, old, i + 1, beh, re)

\* updatePhase(newPhase) up to its await; await is the transition whose
\* listeners the caller waits for (0: none, the call was a no-op)
updatePhase(m, newPhase, beh, re) ==
    IF SamePhase(m, newPhase)
    THEN [m EXCEPT !.await = 0, !.threw = FALSE]
    ELSE LET t == m.seq + 1
             m1 == FanOut([m EXCEPT !.phase = newPhase, !.seq = t,
                                    !.ent = @ \cup {newPhase}],
                          t, m.phase, 1, beh, re)
         IN  [m1 EXCEPT !.await = t]

\* startShutdown() up to its await; when updatePhase threw, the call is
\* over and its promise rejected (threw)
startShutdown(m, beh, re) ==
    LET m1 == updatePhase([m EXCEPT !.sr = TRUE, !.starts = @ + 1],
                          Phase1, beh, re)
    IN  IF m1.threw THEN m1
        ELSE [m1 EXCEPT !.tasks = AddTask(@, Task("startShutdown", "phase",
                                                  m1.await, 0, TRUE, 0, m.sr))]

\* the behaviours of the listeners in one fan-out
Behaviours == [1..stateChangeCbs -> CbOutcomes]

\* ------------------------------------------------------------- timers
\* setTimeout(fn, ms): id names the handle kept in shutdownWatchTimeout,
\* unref tells that .unref() was called on the timer
Timer(kind, rem, id, unref) ==
    [kind |-> kind, rem |-> rem, id |-> id, unref |-> unref]

FreshHandle ==
    CHOOSE h \in 1..(Len(timers) + 2) :
        /\ h # shutdownWatchTimeout
        /\ \A i \in 1..Len(timers) : timers[i].id # h

RemoveAt(q, i) == SubSeq(q, 1, i - 1) \o SubSeq(q, i + 1, Len(q))

\* clearTimeout(h)
ClearTimeout(q, h) == SelectSeq(q, LAMBDA x : x.id # h)

\* the delays given to setTimeout in startShutdown and shutdownPhase2
Phase1DelayNoMargin == ReadinessProbeInterval * 1000
Phase1Delay == (ReadinessProbeInterval * 3 * 1000) \div 2

\* the configuration the specification derives from the environment
Phase1DurationMs == (3 * ReadinessProbeInterval * 1000) \div 2
DrainTimeoutMs == ClosingTimeout * 1000


\* the probe paths the module starts with, a path a program may choose for
\* its readiness probe instead, and a path of the program's own API
DefaultURLs == [test |-> "/api/probe/test", ready |-> "/api/probe/ready",
                live |-> "/api/probe/live"]
CustomReady == "/healthz"

\* Object.values(HealthCheckURLs)
ObjectValues(o) == {o[k] : k \in DOMAIN o}


\* ================================================================= Init
Init ==
    /\ phase = Startup
    /\ shutdownRequested = FALSE
    /\ shutdownWatchTimeout = Undef
    /\ failCase = FALSE
    /\ intCalled = FALSE
    /\ httpTrackers = <<>>
    /\ readyChecks = 0
    /\ stateChangeCbs = 0
    /\ shutdownCbs = 0
    /\ shutdownCheckCbs = 0
    /\ onException = ConsoleWarn
    /\ ReadinessProbeInterval = 1          \* READYPROBE_INTERVAL, seconds
    /\ ClosingTimeout \in {1, 2}          \* SHUTDOWN_TIMEOUT, seconds
    /\ isDev \in BOOLEAN
    /\ throwers \in BOOLEAN
    /\ HealthCheckURLs = DefaultURLs
    /\ destroyThrows \in BOOLEAN
    /\ nextId = 0
    /\ socks = [s \in Sock |-> NewSocket]
    /\ tasks = EmptyBag
    /\ pendingCbs = {}
    /\ timers = <<>>
    /\ exitCode = NoExit
    /\ unhandled = FALSE
    /\ liveReturned = {}
    /\ readyCheckCalls = <<>>
    /\ requested = {}
    /\ shutdownCbCalls = <<>>
    /\ transSeq = 0
    /\ fanout = <<>>
    /\ returned = {}
    /\ shutdownCbRuns = 0
    /\ starts = 0
    /\ probes = 0
    /\ sigterms = 0
    /\ faultCalls = 0
    /\ sinceShutdown = Undef
    /\ sinceDraining = Undef
    /\ sinceFinal = Undef
    /\ direct = FALSE

\* a segment that touches neither the phase machine nor the task bag
Idle ==
    /\ UNCHANGED <<phase, shutdownRequested, pendingCbs, transSeq, starts,
                   unhandled, sinceShutdown, sinceDraining, sinceFinal>>
    /\ fanout' = <<>>
    /\ liveReturned' = {}
    /\ shutdownCbCalls' = <<>>
    /\ direct' = FALSE

\* such a segment that handles no 'request' event
Still == Idle /\ requested' = {}

\* such a segment that invokes no ready-check either
Quiet == Still /\ readyCheckCalls' = <<>>

NoCommit == Quiet /\ UNCHANGED faultCalls

\* =========================================================== registration
\* addHttpServer(server) for a server that is or is not listening yet;
\* instance: the argument is a `new ServerTracker(server)` the program made
\* itself (no health-check URLs), which is pushed as it is
AddHttpServer(listening, instance) ==
    /\ Alive
    /\ Len(httpTrackers) < MaxTrackers
    /\ httpTrackers' = Append(httpTrackers,
                              IF instance
                              THEN NewTracker(listening, {}, TRUE)
                              ELSE NewTracker(listening,
                                              ObjectValues(HealthCheckURLs),
                                              FALSE))
    /\ NoCommit
    /\ returned' = {}
    /\ UNCHANGED <<shutdownWatchTimeout, failCase, intCalled, envVars,
                   trackerVars, runVars, shutdownCbRuns, probes, sigterms>>

\* the variables of probes.ts and of the runtime that registering a
\* callback leaves alone
RegistrationFrame ==
    /\ NoCommit
    /\ returned' = {}
    /\ UNCHANGED <<shutdownWatchTimeout, failCase, intCalled, httpTrackers,
                   ReadinessProbeInterval, ClosingTimeout, isDev, throwers,
                   HealthCheckURLs, destroyThrows, trackerVars, runVars,
                   shutdownCbRuns, probes, sigterms>>

\* onReadyCheck(fn): readyChecks.push(fn)
OnReadyCheck ==
    /\ Alive
    /\ readyChecks < MaxReadyChecks
    /\ readyChecks' = readyChecks + 1
    /\ RegistrationFrame
    /\ UNCHANGED <<stateChangeCbs, shutdownCbs, shutdownCheckCbs, onException>>

\* onStateChange(fn): stateChangeCbs.push(fn)
OnStateChange ==
    /\ Alive
    /\ stateChangeCbs < MaxStateChangeCbs
    /\ stateChangeCbs' = stateChangeCbs + 1
    /\ RegistrationFrame
    /\ UNCHANGED <<readyChecks, shutdownCbs, shutdownCheckCbs, onException>>

\* onShutdown(fn): shutdownCbs.push(fn)
OnShutdown ==
    /\ Alive
    /\ shutdownCbs < MaxShutdownCbs
    /\ shutdownCbs' = shutdownCbs + 1
    /\ RegistrationFrame
    /\ UNCHANGED <<readyChecks, stateChangeCbs, shutdownCheckCbs, onException>>

\* addShutdownReadyCheck(fn): shutdownCheckCbs.push(fn)
AddShutdownReadyCheck ==
    /\ Alive
    /\ shutdownCheckCbs < MaxShutdownChecks
    /\ shutdownCheckCbs' = shutdownCheckCbs + 1
    /\ RegistrationFrame
    /\ UNCHANGED <<readyChecks, stateChangeCbs, shutdownCbs, onException>>

\* setOnException(fn): the sink is replaced
SetOnException(fn) ==
    /\ Alive
    /\ onException' = fn
    /\ onException' # onException
    /\ RegistrationFrame
    /\ UNCHANGED <<readyChecks, stateChangeCbs, shutdownCbs, shutdownCheckCbs>>

\* getProbeRouter(urls, factory): the paths given replace the configured
\* ones, then the routes are created
GetProbeRouter(urls) ==
    /\ Alive
    /\ HealthCheckURLs' = [k \in DOMAIN DefaultURLs |->
                             IF k \in DOMAIN urls THEN urls[k] ELSE HealthCheckURLs[k]]
    /\ HealthCheckURLs' # HealthCheckURLs
    /\ NoCommit
    /\ returned' = {}
    /\ UNCHANGED <<shutdownWatchTimeout, failCase, intCalled, httpTrackers,
                   readyChecks, stateChangeCbs, shutdownCbs, shutdownCheckCbs,
                   ReadinessProbeInterval, ClosingTimeout, isDev, throwers,
                   destroyThrows, onException, trackerVars, runVars,
                   shutdownCbRuns, probes, sigterms>>

\* the hosted server i starts listening
ServerListen(i) ==
    /\ Alive
    /\ i \in 1..Len(httpTrackers)
    /\ ~httpTrackers[i].listening
    /\ httpTrackers' = [httpTrackers EXCEPT ![i].listening = TRUE]
    /\ NoCommit
    /\ returned' = {}
    /\ UNCHANGED <<shutdownWatchTimeout, failCase, intCalled, envVars,
                   trackerVars, runVars, shutdownCbRuns, probes, sigterms>>

\* `if (isDev)`, the test that guards process.exit(1)
ExitOnFaultAlways == TRUE
ExitOnFault == isDev

\* setUnrecoverableError(err)
SetUnrecoverableError ==
    /\ Alive
    /\ ~failCase
    /\ failCase' = TRUE
    /\ faultCalls' = faultCalls + 1
    /\ exitCode' = IF ExitOnFault THEN <<1>> ELSE exitCode
    /\ Quiet
    /\ returned' = {}
    /\ UNCHANGED <<shutdownWatchTimeout, intCalled, httpTrackers, envVars,
                   trackerVars, tasks, timers, shutdownCbRuns, probes, sigterms>>

\* ================================================================ probes
\* `!failCase`, the test of isHealthy() and checkLiveness()
HealthyWhileServing == ~failCase /\ ~shutdownRequested
Healthy == ~failCase

\* isHealthy() / checkLiveness()
Liveness(fn) ==
    /\ Alive
    /\ liveReturned' =
          {[fn |-> fn, healthy |-> Healthy,
            message |-> IF fn = "isHealthy" THEN ""
                        ELSE IF Healthy THEN "alive" ELSE "Unrecoverable error",
            statusCode |-> IF fn = "isHealthy" THEN 0
                           ELSE IF Healthy THEN 200 ELSE 503]}
    /\ fanout' = <<>>
    /\ returned' = {}
    /\ readyCheckCalls' = <<>>
    /\ requested' = {}
    /\ shutdownCbCalls' = <<>>
    /\ UNCHANGED <<orchVars, trackerVars, runVars, transSeq, shutdownCbRuns,
                   starts, probes, sigterms, faultCalls, sinceShutdown,
                   sinceDraining, sinceFinal>>
    /\ direct' = FALSE

ReadinessFns == {"isReady", "checkReadiness"}

\* the value a readiness evaluation returns: isReady() gives the boolean,
\* checkReadiness() the boolean with its message
Result(fn, healthy, message, began) ==
    [fn |-> fn, healthy |-> healthy,
     message |-> IF fn = "isReady" THEN "" ELSE message,
     statusCode |-> IF fn = "isReady" THEN 0 ELSE IF healthy THEN 200 ELSE 503,
     began |-> began, rejected |-> FALSE, reported |-> NoSink]

\* the evaluation threw: its promise is rejected and the caller gets the
\* exception instead of a value
Rejected(fn, began) ==
    [fn |-> fn, healthy |-> FALSE, message |-> "", statusCode |-> 0,
     began |-> began, rejected |-> TRUE, reported |-> NoSink]

\* readyHandler of createProbeHandlers: the router's handler for the
\* readiness URL, which awaits checkReadiness() inside try/catch
HandlerFn == "readyHandler"
EvalFns == ReadinessFns \cup {HandlerFn}

\* the catch block of readyHandler: onException("Error in readiness probe: ",
\* ...) and sendResponse(res, 500, "Unexpected error: " + err)
Caught(began) ==
    [fn |-> HandlerFn, healthy |-> FALSE, message |-> "Unexpected error",
     statusCode |-> 500, began |-> began, rejected |-> FALSE,
     reported |-> onException]

\* an evaluation called as fn is over with r (a value, or the exception it
\* rejects with): a direct caller of isReady()/checkReadiness() has it, the
\* handler goes on in a later microtask
Deliver(fn, r) == IF fn = HandlerFn THEN {} ELSE {r}
Settle(fn, r, b) ==
    IF fn = HandlerFn
    THEN AddTask(b, [Task(HandlerFn, "answer", 0, 0, TRUE, 0, r.began)
                        EXCEPT !.res = r])
    ELSE b

\* what a ready-check hands back: a promise that fulfils with true, one that
\* fulfils with something else or rejects, a pending promise, or it throws
ReadyOutcomes == IF throwers THEN CheckOutcomes \cup {Throws} ELSE CheckOutcomes

\* readyChecks.map(fn => fn()) invokes the checks in order and is left by
\* the first one that throws: the index of the last check invoked
LastChecked(res) ==
    LET th == {j \in 1..readyChecks : res[j] = Throws}
    IN  IF th = {} THEN readyChecks
        ELSE CHOOSE j \in th : \A x \in th : j <= x

\* `failCase || shutdownRequested`, the first test of both evaluations
ClosingFaultOnly == failCase
Closing == failCase \/ shutdownRequested

\* probes.ts 117-120 and 152-155: the outcomes collected by allSettled; a
\* check that has already rejected or returned something other than true
\* makes readyChecksPassed false.
NoneFailed(res) == \A i \in 1..readyChecks : res[i] # "bad"

\* isReady() / checkReadiness() up to the await of the ready-checks;
\* res[i] is what ready-check i hands back
Readiness(fn, res) ==
    /\ Alive
    /\ probes < MaxProbes
    /\ probes' = probes + 1
    /\ IF Closing
       THEN LET r == Result(fn, FALSE, "Service is closing", shutdownRequested)
            IN  /\ returned' = Deliver(fn, r)
                /\ tasks' = Settle(fn, r, tasks)
                /\ readyCheckCalls' = <<>>
       ELSE IF Len(httpTrackers) = 0
       THEN LET r == Result(fn, FALSE, "Server not ready", shutdownRequested)
            IN  /\ returned' = Deliver(fn, r)
                /\ tasks' = Settle(fn, r, tasks)
                /\ readyCheckCalls' = <<>>
       ELSE IF \E i \in 1..readyChecks : res[i] = Throws
       THEN LET r == Rejected(fn, shutdownRequested)
            IN  /\ returned' = Deliver(fn, r)
                /\ tasks' = Settle(fn, r, tasks)
                /\ readyCheckCalls' = [j \in 1..LastChecked(res) |-> res[j]]
       ELSE /\ returned' = {}
            /\ readyCheckCalls' = [j \in 1..readyChecks |-> res[j]]
            /\ tasks' = AddTask(tasks,
                  Task(fn, "checks", 0,
                       Cardinality({i \in 1..readyChecks : res[i] = "pending"}),
                       NoneFailed(res),
                       0, shutdownRequested))
    /\ Still
    /\ UNCHANGED faultCalls
    /\ UNCHANGED <<shutdownWatchTimeout, failCase, intCalled, httpTrackers,
                   envVars, trackerVars, timers, exitCode, shutdownCbRuns, sigterms>>

\* the test of isReady() after the ready-checks settled:
\* `!readyChecksPassed || !httpStarted` returns false
IsReadyPassedChecksOnly(ok, httpStarted) == ok
IsReadyPassed(ok, httpStarted) == ~(~ok \/ ~httpStarted)

\* the tests of checkReadiness() after the ready-checks settled:
\* `!readyChecksPassed`, then `!httpStarted`
VerdictListeningFirst(ok, httpStarted) ==
    IF ~httpStarted THEN "HTTP server not ready"
    ELSE IF ~ok THEN "Ready check(s) failed"
    ELSE "ready"
Verdict(ok, httpStarted) ==
    IF ~ok THEN "Ready check(s) failed"
    ELSE IF ~httpStarted THEN "HTTP server not ready"
    ELSE "ready"

\* `phase === Phase.Startup`, the test that guards the step to Running
NotYetRunning == phase # Running
InStartup == phase = Startup

\* the evaluation after Promise.allSettled(readyChecks...) has resolved; when
\* updatePhase throws, its promise is rejected and the evaluation goes on
\* at its await in a later microtask (pc "threw")
ReadinessChecked(k, beh, re) ==
    /\ Alive
    /\ k.fn \in EvalFns /\ k.pc = "checks" /\ Runnable(k)
    /\ LET httpStarted == \A i \in 1..Len(httpTrackers) : httpTrackers[i].listening
           m0 == [Cur EXCEPT !.tasks = RemoveTask(@, k)]
           v == Verdict(k.ok, httpStarted)
           passed == IF k.fn = "isReady" THEN IsReadyPassed(k.ok, httpStarted)
                     ELSE v = "ready"
       IN  IF ~passed
           THEN LET r == Result(k.fn, FALSE, v, k.began)
                IN  /\ returned' = Deliver(k.fn, r)
                    /\ Commit([m0 EXCEPT !.tasks = Settle(k.fn, r, @)])
           ELSE IF InStartup
           THEN LET m1 == updatePhase(m0, Running, beh, re)
                IN  /\ returned' = {}
                    /\ Commit([m1 EXCEPT !.threw = FALSE,
                                  !.tasks = AddTask(@,
                                     IF m1.threw
                                     THEN Task(k.fn, "threw", 0, 0, TRUE, 0, k.began)
                                     ELSE Task(k.fn, "phase", m1.await, 0, TRUE, 0,
                                               k.began))])
           ELSE LET r == Result(k.fn, TRUE, "ready", k.began)
                IN  /\ returned' = Deliver(k.fn, r)
                    /\ Commit([m0 EXCEPT !.tasks = Settle(k.fn, r, @)])
    /\ UNCHANGED <<shutdownWatchTimeout, failCase, intCalled, httpTrackers,
                   envVars, trackerVars, timers, exitCode, shutdownCbRuns, probes, sigterms>>

\* the evaluation after `await updatePhase(Phase.Running)`: it returns
\* ready, or rejects with the exception updatePhase was rejected with
ReadinessReturn(k) ==
    /\ Alive
    /\ k.fn \in EvalFns /\ k.pc \in {"phase", "threw"} /\ Runnable(k)
    /\ LET r == IF k.pc = "threw" THEN Rejected(k.fn, k.began)
                ELSE Result(k.fn, TRUE, "ready", k.began)
       IN  /\ returned' = Deliver(k.fn, r)
           /\ Commit([Cur EXCEPT !.tasks = Settle(k.fn, r, RemoveTask(@, k))])
    /\ UNCHANGED <<shutdownWatchTimeout, failCase, intCalled, httpTrackers,
                   envVars, trackerVars, timers, exitCode, shutdownCbRuns, probes, sigterms>>

\* readyHandler after `await checkReadiness()`: it sends the result, or its
\* catch block reports the exception and sends 500
HandlerAnswer(k) ==
    /\ Alive
    /\ k.fn = HandlerFn /\ k.pc = "answer"
    /\ returned' = {IF k.res.rejected THEN Caught(k.began) ELSE k.res}
    /\ Commit([Cur EXCEPT !.tasks = RemoveTask(@, k)])
    /\ UNCHANGED <<shutdownWatchTimeout, failCase, intCalled, httpTrackers,
                   envVars, trackerVars, timers, exitCode, shutdownCbRuns, probes, sigterms>>


\* ==================================================== shutdown sequencer
\* startShutdown() called by user code, up to `await updatePhase(Phase.Phase1)`;
\* handled: the caller awaits or catches the promise it gets (a promise
\* that is rejected and dropped has no handler)
StartShutdown(beh, re, handled) ==
    /\ Alive
    /\ starts < MaxStarts
    /\ LET r == startShutdown(Cur, beh, re)
       IN  Commit([r EXCEPT !.unh = @ \/ (r.threw /\ ~handled)])
    /\ returned' = {}
    /\ UNCHANGED <<shutdownWatchTimeout, failCase, intCalled, httpTrackers,
                   envVars, trackerVars, timers, exitCode, shutdownCbRuns, probes, sigterms>>

\* the code of forceShutdown(-127)
SigtermExitCode == -127

\* `if (intCalled)`, the handler's test for a repeated signal
RepeatedSignal == intCalled

\* process.on('SIGTERM', ...)
Sigterm(beh, re) ==
    /\ Alive
    /\ IF RepeatedSignal
       THEN /\ exitCode' = <<SigtermExitCode>>
            /\ NoCommit
            /\ UNCHANGED <<tasks, intCalled>>
       ELSE /\ starts < MaxStarts
            /\ LET r == startShutdown(Cur, beh, re)
               IN  Commit([r EXCEPT !.unh = @ \/ r.threw])
            /\ intCalled' = TRUE
            /\ UNCHANGED exitCode
    /\ sigterms' = sigterms + 1
    /\ returned' = {}
    /\ UNCHANGED <<shutdownWatchTimeout, failCase, httpTrackers, envVars,
                   trackerVars, timers, shutdownCbRuns, probes>>

\* startShutdown() after its await: setTimeout(shutdownPhase2, ...)
StartShutdownResume(k) ==
    /\ Alive
    /\ k.fn = "startShutdown" /\ Runnable(k)
    /\ timers' = Append(timers, Timer("phase2", Phase1Delay, 0, FALSE))
    /\ Commit([Cur EXCEPT !.tasks = RemoveTask(@, k)])
    /\ returned' = {}
    /\ UNCHANGED <<shutdownWatchTimeout, failCase, intCalled, httpTrackers,
                   envVars, trackerVars, exitCode, shutdownCbRuns, probes, sigterms>>

\* shutdownPhase2() up to `await updatePhase(Phase.Phase2)`
shutdownPhase2(m, beh, re) ==
    LET m1 == updatePhase(m, Phase2, beh, re)
    IN  IF m1.threw THEN m1
        ELSE [m1 EXCEPT !.tasks = AddTask(@, Task("shutdownPhase2", "phase",
                                                  m1.await, 0, TRUE, 0, m.sr))]

\* for (const t of httpTrackers) t.requestShutdown(), from tracker i on
RECURSIVE RequestShutdownAll(_, _, _, _)
RequestShutdownAll(ts, sk, i, thr) ==
    IF i > Len(ts) THEN [trackers |-> ts, socks |-> sk, threw |-> FALSE]
    ELSE IF requestShutdownThrows(ts[i], sk, thr)
    THEN [trackers |-> [ts EXCEPT ![i] = requestShutdownThrown(ts[i])],
          socks |-> sk, threw |-> TRUE]
    ELSE LET r == requestShutdown(ts[i], sk)
         IN  RequestShutdownAll([ts EXCEPT ![i] = r.tracker], r.socks, i + 1, thr)

\* for (const t of httpTrackers) t.forceClose(), from tracker i on
RECURSIVE ForceCloseAll(_, _, _, _)
ForceCloseAll(ts, sk, i, thr) ==
    IF i > Len(ts) THEN [trackers |-> ts, socks |-> sk, threw |-> FALSE]
    ELSE IF forceCloseThrows(ts[i], thr)
    THEN [trackers |-> [ts EXCEPT ![i] = forceCloseThrown(ts[i], thr)],
          socks |-> sk, threw |-> TRUE]
    ELSE LET r == forceClose(ts[i], sk)
         IN  ForceCloseAll([ts EXCEPT ![i] = r.tracker], r.socks, i + 1, thr)

\* shutdownPhase2() after its await: the trackers are told, the poll and
\* the hard deadline are armed; an exception out of requestShutdown() ends
\* the call before that and rejects its promise, which nobody awaits
ShutdownPhase2Resume(k, thr) ==
    /\ Alive
    /\ k.fn = "shutdownPhase2" /\ Runnable(k)
    /\ LET r == RequestShutdownAll(httpTrackers, socks, 1, thr)
           h == FreshHandle
       IN  /\ httpTrackers' = r.trackers
           /\ socks' = r.socks
           /\ IF r.threw
              THEN /\ UNCHANGED <<shutdownWatchTimeout, timers>>
                   /\ Commit([Cur EXCEPT !.tasks = RemoveTask(@, k), !.unh = TRUE])
              ELSE /\ shutdownWatchTimeout' = h
                   /\ timers' = timers \o
                         <<Timer("watch", ConnectionCheckInterval, h, TRUE),
                           Timer("deadline", ClosingTimeout * 1000, 0, TRUE)>>
                   /\ Commit([Cur EXCEPT !.tasks = RemoveTask(@, k)])
    /\ returned' = {}
    /\ UNCHANGED <<failCase, intCalled, envVars, nextId, exitCode,
                   shutdownCbRuns, probes, sigterms>>

\* the code of process.exit in finishShutdown's catch block
CatchExitCode == 1

\* finishShutdown() up to `await updatePhase(Phase.Phase3)`: q is the
\* timer queue, the result carries the queue after clearTimeout; when
\* updatePhase threw, its promise is rejected and the call goes on in its
\* catch block in a later microtask (pc "threw")
finishShutdown(m, q, beh, re) ==
    LET m1 == updatePhase(m, Phase3, beh, re)
    IN  [m |-> [m1 EXCEPT !.threw = FALSE,
                          !.tasks = AddTask(@,
                             IF m1.threw
                             THEN Task("finishShutdown", "threw", 0, 0, TRUE, 0, m.sr)
                             ELSE Task("finishShutdown", "phase", m1.await, 0,
                                       TRUE, 0, m.sr))],
         timers |-> IF shutdownWatchTimeout # Undef
                    THEN ClearTimeout(q, shutdownWatchTimeout)
                    ELSE q]

TotalActive ==
    LET RECURSIVE Sum(_)
        Sum(i) == IF i = 0 THEN 0
                  ELSE Sum(i - 1) + activeConnectionCount(httpTrackers[i], socks)
    IN  Sum(Len(httpTrackers))

\* a timer whose delay has elapsed runs its callback
TimerFire(i, beh, re, res) ==
    /\ Alive /\ ~MicrotaskPending
    /\ i \in 1..Len(timers)
    /\ timers[i].rem = 0
    /\ LET q == RemoveAt(timers, i)
           kind == timers[i].kind
       IN  CASE kind = "phase2" ->
                  /\ LET r == shutdownPhase2(Cur, beh, re)
                     IN  Commit([r EXCEPT !.unh = @ \/ r.threw])
                  /\ timers' = q
                  /\ UNCHANGED <<shutdownWatchTimeout, exitCode>>
             [] kind = "watch" ->
                  \* shutdownConnectionWatch() up to its await; a check
                  \* that throws takes the call to its catch block, which
                  \* arms the next poll
                  IF \E j \in 1..shutdownCheckCbs : res[j] = Throws
                  THEN LET h == FreshHandle
                       IN  /\ shutdownWatchTimeout' = h
                           /\ timers' = Append(q, Timer("watch",
                                                        ConnectionCheckInterval,
                                                        h, TRUE))
                           /\ Commit(Cur)
                           /\ UNCHANGED exitCode
                  ELSE /\ shutdownWatchTimeout' = Undef
                       /\ Commit([Cur EXCEPT !.tasks = AddTask(@,
                             Task("shutdownConnectionWatch", "checks", 0,
                                  Cardinality({j \in 1..shutdownCheckCbs :
                                                  res[j] = "pending"}),
                                  \A j \in 1..shutdownCheckCbs : res[j] # "bad",
                                  TotalActive, shutdownRequested))])
                       /\ timers' = q
                       /\ UNCHANGED exitCode
             [] kind = "deadline" ->
                  LET f == finishShutdown(Cur, q, beh, re)
                  IN  /\ Commit(f.m)
                      /\ timers' = f.timers
                      /\ UNCHANGED <<shutdownWatchTimeout, exitCode>>
             [] kind = "forceExit" ->
                  \* forceShutdown(): process.exit(undefined)
                  /\ exitCode' = <<0>>
                  /\ timers' = q
                  /\ NoCommit
                  /\ UNCHANGED <<tasks, shutdownWatchTimeout>>
    /\ returned' = {}
    /\ UNCHANGED <<failCase, intCalled, httpTrackers, envVars, trackerVars,
                   shutdownCbRuns, probes, sigterms>>

\* `!active && !userChecksFailed`, the test that ends the drain
DrainDoneIgnoringChecks(k) == k.active = 0
DrainDone(k) == k.active = 0 /\ k.ok

\* shutdownConnectionWatch() after its await
WatchResume(k, beh, re) ==
    /\ Alive
    /\ k.fn = "shutdownConnectionWatch" /\ Runnable(k)
    /\ LET m0 == [Cur EXCEPT !.tasks = RemoveTask(@, k)]
       IN  IF DrainDone(k)
           THEN LET f == finishShutdown(m0, timers, beh, re)
                IN  /\ Commit(f.m)
                    /\ timers' = f.timers
                    /\ UNCHANGED <<shutdownWatchTimeout, exitCode>>
           ELSE LET h == FreshHandle
                IN  /\ Commit(m0)
                    /\ timers' = Append(timers, Timer("watch", ConnectionCheckInterval,
                                                       h, TRUE))
                    /\ shutdownWatchTimeout' = h
                    /\ UNCHANGED exitCode
    /\ returned' = {}
    /\ UNCHANGED <<failCase, intCalled, httpTrackers, envVars, trackerVars,
                   shutdownCbRuns, probes, sigterms>>

\* shutdownCbs.map(cb => cb()) invokes the handlers in order and is left by
\* the first one that throws: the index of the last handler invoked
LastInvoked(out) ==
    LET th == {j \in 1..shutdownCbs : out[j] = Throws}
    IN  IF th = {} THEN shutdownCbs
        ELSE CHOOSE j \in th : \A x \in th : j <= x

\* finishShutdown() after `await updatePhase(Phase.Phase3)`: the trackers
\* are force-closed and the onShutdown handlers invoked; out[i] is what
\* handler i hands back; an exception out of forceClose() goes to the catch
\* block before any handler is invoked
FinishForceClose(k, out, thr) ==
    /\ Alive
    /\ k.fn = "finishShutdown" /\ k.pc = "phase" /\ Runnable(k)
    /\ LET r == ForceCloseAll(httpTrackers, socks, 1, thr)
           last == LastInvoked(out)
           m0 == [Cur EXCEPT !.tasks = RemoveTask(@, k),
                             !.cbs = [j \in 1..last |-> j]]
       IN  /\ httpTrackers' = r.trackers
           /\ socks' = r.socks
           /\ IF r.threw
              THEN /\ Commit([Cur EXCEPT !.tasks = RemoveTask(@, k)])
                   /\ exitCode' = <<CatchExitCode>>
                   /\ UNCHANGED shutdownCbRuns
              ELSE IF \E j \in 1..shutdownCbs : out[j] = Throws
              THEN /\ Commit(m0)
                   /\ exitCode' = <<CatchExitCode>>
                   /\ shutdownCbRuns' = shutdownCbRuns + 1
              ELSE /\ Commit([m0 EXCEPT !.tasks = AddTask(@,
                         Task("finishShutdown", "cbs", 0,
                              Cardinality({j \in 1..shutdownCbs : out[j] = "pending"}),
                              TRUE, 0, k.began))])
                   /\ UNCHANGED exitCode
                   /\ shutdownCbRuns' = shutdownCbRuns + 1
    /\ returned' = {}
    /\ UNCHANGED <<shutdownWatchTimeout, failCase, intCalled, envVars, nextId,
                   timers, probes, sigterms>>

\* finishShutdown() after its `await updatePhase(Phase.Phase3)` was
\* rejected: the catch block warns and calls process.exit(1)
FinishCatch(k) ==
    /\ Alive
    /\ k.fn = "finishShutdown" /\ k.pc = "threw"
    /\ exitCode' = <<CatchExitCode>>
    /\ Commit([Cur EXCEPT !.tasks = RemoveTask(@, k)])
    /\ returned' = {}
    /\ UNCHANGED <<shutdownWatchTimeout, failCase, intCalled, httpTrackers,
                   envVars, trackerVars, timers, shutdownCbRuns, probes, sigterms>>

\* finishShutdown() after Promise.allSettled(shutdownCbs...): the
\* force-exit timer is armed
FinishArmExit(k) ==
    /\ Alive
    /\ k.fn = "finishShutdown" /\ k.pc = "cbs" /\ Runnable(k)
    /\ timers' = Append(timers, Timer("forceExit", ForceExitTimeout, 0, TRUE))
    /\ Commit([Cur EXCEPT !.tasks = RemoveTask(@, k)])
    /\ returned' = {}
    /\ UNCHANGED <<shutdownWatchTimeout, failCase, intCalled, httpTrackers,
                   envVars, trackerVars, exitCode, shutdownCbRuns, probes, sigterms>>


\* The promise of a call nobody awaits (the signal handler's startShutdown(),
\* the timer's shutdownPhase2()) was rejected: the runtime, depending on its
\* version and flags, ends the process with code 1 or only warns.
UnhandledRejection ==
    /\ Alive /\ ~MicrotaskPending
    /\ unhandled
    /\ exitCode' = <<CatchExitCode>>
    /\ NoCommit
    /\ returned' = {}
    /\ UNCHANGED <<shutdownWatchTimeout, failCase, intCalled, httpTrackers,
                   envVars, trackerVars, tasks, timers, shutdownCbRuns, probes,
                   sigterms>>

\* ===================================================== user promises settle
\* a promise returned by a state-change listener fulfils or rejects
SettleListener(p) ==
    /\ Alive
    /\ p \in pendingCbs
    /\ Commit([Cur EXCEPT !.pend = @ \ {p}])
    /\ returned' = {}
    /\ UNCHANGED <<shutdownWatchTimeout, failCase, intCalled, httpTrackers,
                   envVars, trackerVars, timers, exitCode, shutdownCbRuns, probes, sigterms>>

\* a pending ready-check or shutdown-ready check settles: good is
\* `fulfilled with true`, anything else (false, a rejection) is not
SettleCheck(k, good) ==
    /\ Alive
    /\ k.pc = "checks" /\ k.n > 0
    /\ Commit([Cur EXCEPT !.tasks = AddTask(RemoveTask(@, k),
            [k EXCEPT !.n = @ - 1, !.ok = @ /\ good])])
    /\ returned' = {}
    /\ UNCHANGED <<shutdownWatchTimeout, failCase, intCalled, httpTrackers,
                   envVars, trackerVars, timers, exitCode, shutdownCbRuns, probes, sigterms>>

\* a promise returned by an onShutdown handler fulfils or rejects
SettleShutdownCb(k) ==
    /\ Alive
    /\ k.pc = "cbs" /\ k.n > 0
    /\ Commit([Cur EXCEPT !.tasks = AddTask(RemoveTask(@, k),
            [k EXCEPT !.n = @ - 1])])
    /\ returned' = {}
    /\ UNCHANGED <<shutdownWatchTimeout, failCase, intCalled, httpTrackers,
                   envVars, trackerVars, timers, exitCode, shutdownCbRuns, probes, sigterms>>

\* ==================================================================== time
Elapse(since, dt, cap) == IF since = Undef THEN Undef ELSE Min(since + dt, cap)

CapShutdown == Phase1DurationMs + TickStep
CapDraining == DrainTimeoutMs + TickStep
CapFinal == ForceExitTimeout + TickStep

\* dt ms pass: up to the next expiry of a timer, if one is armed
Tick(dt) ==
    /\ Alive /\ ~MicrotaskPending
    /\ dt > 0
    /\ IF Len(timers) > 0
       THEN \A i \in 1..Len(timers) : dt <= timers[i].rem
       ELSE /\ dt = TickStep
            /\ \/ sinceShutdown \notin {Undef, CapShutdown}
               \/ sinceDraining \notin {Undef, CapDraining}
               \/ sinceFinal \notin {Undef, CapFinal}
    /\ timers' = [i \in 1..Len(timers) |-> [timers[i] EXCEPT !.rem = @ - dt]]
    /\ sinceShutdown' = Elapse(sinceShutdown, dt, CapShutdown)
    /\ sinceDraining' = Elapse(sinceDraining, dt, CapDraining)
    /\ sinceFinal' = Elapse(sinceFinal, dt, CapFinal)
    /\ fanout' = <<>>
    /\ returned' = {}
    /\ liveReturned' = {}
    /\ readyCheckCalls' = <<>>
    /\ requested' = {}
    /\ shutdownCbCalls' = <<>>
    /\ UNCHANGED <<orchVars, trackerVars, tasks, pendingCbs, exitCode, unhandled,
                   transSeq, shutdownCbRuns, starts, probes, sigterms, faultCalls>>
    /\ direct' = FALSE

\* =========================================================== socket events
SetTracker(i, t) == [httpTrackers EXCEPT ![i] = t]

\* the server emits 'connection' for socket s (again, for an open socket)
Connection(s) ==
    /\ Alive
    /\ ServerOf(s) <= Len(httpTrackers)
    /\ socks[s].state \in {"new", "open"} /\ ~socks[s].destroyed
    /\ socks[s].state = "new" => httpTrackers[ServerOf(s)].listening
    /\ LET i == ServerOf(s)
           sk == [socks EXCEPT ![s].state = "open"]
           c == onConnection(httpTrackers[i], sk, nextId, s)
       IN  /\ httpTrackers' = SetTracker(i, c.tracker)
           /\ socks' = c.socks
           /\ nextId' = c.nextId
    /\ NoCommit
    /\ returned' = {}
    /\ UNCHANGED <<shutdownWatchTimeout, failCase, intCalled, envVars, runVars,
                   shutdownCbRuns, probes, sigterms>>

\* the tracker's listener of 'request' runs for a request for url on socket
\* s, also while earlier responses on s are unfinished (pipelining); sent:
\* the application's listener has answered already.  An exception that
\* leaves the listener is uncaught and ends the process with code 1.
Request(s, url, sent) ==
    /\ Alive
    /\ ServerOf(s) <= Len(httpTrackers)
    /\ socks[s].state = "open" /\ ~socks[s].destroyed
    /\ Len(socks[s].inflight) + (IF socks[s].refusing THEN 1 ELSE 0) < MaxPipelined
    /\ LET i == ServerOf(s)
           check == isValidCheck(httpTrackers[i], url)
           c == onRequest(httpTrackers[i], socks, nextId, s, check, sent)
       IN  /\ httpTrackers' = SetTracker(i, c.tracker)
           /\ socks' = c.socks
           /\ nextId' = c.nextId
           /\ requested' = {[sock |-> s, url |-> url, check |-> check,
                             found |-> c.found, threw |-> c.threw]}
           /\ exitCode' = IF c.threw THEN <<1>> ELSE exitCode
    /\ Idle
    /\ readyCheckCalls' = <<>>
    /\ returned' = {}
    /\ UNCHANGED <<shutdownWatchTimeout, failCase, intCalled, envVars, tasks,
                   timers, shutdownCbRuns, probes, sigterms, faultCalls>>

\* `if (this.isShuttingDown)`, the test of the 'finish' listener that
\* guards sock.destroy()
KeepAliveAlways(t) == FALSE
DenyKeepAlive(t) == t.isShuttingDown

\* the oldest unfinished response on socket s emits 'finish'
Finish(s) ==
    /\ Alive
    /\ socks[s].state = "open" /\ ~socks[s].destroyed /\ Serving(socks, s)
    /\ socks' = [socks EXCEPT ![s].inflight = Tail(@),
                              ![s].idle = TRUE,
                              ![s].destroyed = DenyKeepAlive(httpTrackers[ServerOf(s)])]
    /\ NoCommit
    /\ returned' = {}
    /\ UNCHANGED <<orchVars, nextId, runVars, shutdownCbRuns, probes, sigterms>>

\* the 503 'Closing' refusal on socket s is flushed: res.end's callback
Flush(s) ==
    /\ Alive
    /\ socks[s].state = "open" /\ socks[s].refusing
    /\ socks' = [socks EXCEPT ![s].refusing = FALSE, ![s].destroyed = TRUE]
    /\ NoCommit
    /\ returned' = {}
    /\ UNCHANGED <<orchVars, nextId, runVars, shutdownCbRuns, probes, sigterms>>

\* socket s emits 'close' (the peer hung up, or destroy() took effect)
Close(s) ==
    /\ Alive
    /\ socks[s].state = "open"
    /\ LET i == ServerOf(s)
       IN  httpTrackers' =
             IF socks[s].closeLs
             THEN SetTracker(i, [httpTrackers[i] EXCEPT
                                   !.connections = MapDelete(@, socks[s].id)])
             ELSE httpTrackers
    /\ socks' = [socks EXCEPT ![s].state = "closed", ![s].inflight = <<>>,
                              ![s].refusing = FALSE]
    /\ NoCommit
    /\ returned' = {}
    /\ UNCHANGED <<shutdownWatchTimeout, failCase, intCalled, envVars, nextId,
                   runVars, shutdownCbRuns, probes, sigterms>>

\* ================================================= direct calls of a tracker
\* what a call that user code makes on a tracker it holds leaves alone
DirectCallFrame ==
    /\ direct' = TRUE
    /\ UNCHANGED <<phase, shutdownRequested, pendingCbs, transSeq, starts,
                   unhandled, sinceShutdown, sinceDraining, sinceFinal,
                   faultCalls, shutdownWatchTimeout, failCase, intCalled,
                   envVars, tasks, timers, exitCode, shutdownCbRuns,
                   probes, sigterms>>
    /\ fanout' = <<>>
    /\ returned' = {}
    /\ liveReturned' = {}
    /\ readyCheckCalls' = <<>>
    /\ shutdownCbCalls' = <<>>

\* user code calls requestShutdown() on tracker i; an exception out of it
\* goes to the caller
TrackerRequestShutdown(i, thr) ==
    /\ Alive
    /\ i \in 1..Len(httpTrackers) /\ httpTrackers[i].held
    /\ IF requestShutdownThrows(httpTrackers[i], socks, thr)
       THEN /\ httpTrackers' = SetTracker(i, requestShutdownThrown(httpTrackers[i]))
            /\ UNCHANGED socks
       ELSE LET r == requestShutdown(httpTrackers[i], socks)
            IN  /\ httpTrackers' = SetTracker(i, r.tracker)
                /\ socks' = r.socks
    /\ UNCHANGED nextId
    /\ requested' = {}
    /\ DirectCallFrame

\* user code calls forceClose() on tracker i
TrackerForceClose(i, thr) ==
    /\ Alive
    /\ i \in 1..Len(httpTrackers) /\ httpTrackers[i].held
    /\ IF forceCloseThrows(httpTrackers[i], thr)
       THEN /\ httpTrackers' = SetTracker(i, forceCloseThrown(httpTrackers[i], thr))
            /\ UNCHANGED socks
       ELSE LET r == forceClose(httpTrackers[i], socks)
            IN  /\ httpTrackers' = SetTracker(i, r.tracker)
                /\ socks' = r.socks
    /\ UNCHANGED nextId
    /\ requested' = {}
    /\ DirectCallFrame

\* user code calls onConnection(sock) on tracker i with a socket s that
\* the server of the tracker has accepted, open or closed by now
TrackerOnConnection(i, s) ==
    /\ Alive
    /\ i \in 1..Len(httpTrackers) /\ httpTrackers[i].held
    /\ ServerOf(s) = i /\ socks[s].state # "new"
    /\ LET c == onConnection(httpTrackers[i], socks, nextId, s)
       IN  /\ httpTrackers' = SetTracker(i, c.tracker)
           /\ socks' = c.socks
           /\ nextId' = c.nextId
    /\ requested' = {}
    /\ DirectCallFrame

\* user code calls onRequest(req, res) on tracker i for a request for url
\* on such a socket; sent: the head of res was sent already, so that the
\* refusal throws, and the exception goes to the caller
TrackerOnRequest(i, s, url, sent) ==
    /\ Alive
    /\ i \in 1..Len(httpTrackers) /\ httpTrackers[i].held
    /\ ServerOf(s) = i /\ socks[s].state # "new"
    /\ Len(socks[s].inflight) + (IF socks[s].refusing THEN 1 ELSE 0) < MaxPipelined
    /\ LET check == isValidCheck(httpTrackers[i], url)
           c == onRequest(httpTrackers[i], socks, nextId, s, check, sent)
       IN  /\ httpTrackers' = SetTracker(i, c.tracker)
           /\ socks' = c.socks
           /\ nextId' = c.nextId
           /\ requested' = {[sock |-> s, url |-> url, check |-> check,
                             found |-> c.found, threw |-> c.threw]}
    /\ DirectCallFrame

\* ========================================================= the process ends
\* Nothing keeps the event loop alive: no continuation is runnable, no
\* server listens, no socket is open and every armed timer was unref()'d.
\* The process then ends with code 0, unless the program has a handle of
\* its own (in which case this step is not taken).
LoopEmpty ==
    /\ Alive /\ ~MicrotaskPending
    /\ \A i \in 1..Len(httpTrackers) : ~httpTrackers[i].listening
    /\ \A s \in Sock : socks[s].state # "open"
    /\ \A i \in 1..Len(timers) : timers[i].unref
    /\ exitCode' = <<0>>
    /\ NoCommit
    /\ returned' = {}
    /\ UNCHANGED <<shutdownWatchTimeout, failCase, intCalled, httpTrackers,
                   envVars, trackerVars, tasks, timers, shutdownCbRuns, probes,
                   sigterms>>

\* ==================================================================== Next
TaskSet == BagToSet(tasks)

\* the listener that calls startShutdown() from its body, if any, in a
\* segment that itself makes own invocations of startShutdown
ReSet(own, allow) ==
    IF allow
    THEN {0} \cup {i \in 1..stateChangeCbs : starts + own < MaxStarts}
    ELSE {0}


\* user code registers servers; servers start listening
Registration ==
    \/ \E l \in BOOLEAN, inst \in BOOLEAN : AddHttpServer(l, inst)
    \/ \E i \in 1..MaxTrackers : ServerListen(i)

\* user code registers its callbacks
Callbacks ==
    OnStateChange \/ OnReadyCheck \/ OnShutdown \/ AddShutdownReadyCheck

\* registrations made while the program sets itself up: before it has
\* a server and before shutdown was asked for
AtStartup(A) == Len(httpTrackers) = 0 /\ ~shutdownRequested /\ A

\* readiness probes arrive and are evaluated
ProbingOf(fns, allow) ==
    \/ \E fn \in fns, res \in [1..readyChecks -> ReadyOutcomes] :
          Readiness(fn, res)
    \/ \E k \in TaskSet, beh \in Behaviours, re \in ReSet(0, allow) :
          ReadinessChecked(k, beh, re)
    \/ \E k \in TaskSet : ReadinessReturn(k)

\* direct calls of isReady() and checkReadiness()
Probing(allow) == ProbingOf(ReadinessFns, allow)

\* GET requests for the readiness URL, answered by the router
RouterProbing(allow) ==
    \/ ProbingOf({HandlerFn}, allow)
    \/ \E k \in TaskSet : HandlerAnswer(k)

\* liveness probes arrive
LivenessProbing == \E fn \in {"isHealthy", "checkLiveness"} : Liveness(fn)

\* user code calls startShutdown()
UserShutdown(allow) ==
    \E beh \in Behaviours, re \in ReSet(1, allow), handled \in BOOLEAN :
        StartShutdown(beh, re, handled)

\* the host delivers SIGTERM
Signal(allow) ==
    \E beh \in Behaviours, re \in ReSet(1, allow) : Sigterm(beh, re)

\* the shutdown sequencer advances
Sequencer(allow) ==
    \/ \E k \in TaskSet : StartShutdownResume(k)
    \/ \E i \in 1..Len(timers), beh \in Behaviours, re \in ReSet(0, allow),
          res \in [1..shutdownCheckCbs -> ReadyOutcomes] :
          TimerFire(i, beh, re, res)
    \/ \E k \in TaskSet, thr \in ThrowChoices : ShutdownPhase2Resume(k, thr)
    \/ \E k \in TaskSet, beh \in Behaviours, re \in ReSet(0, allow) :
          WatchResume(k, beh, re)
    \/ \E k \in TaskSet, out \in [1..shutdownCbs -> CbOutcomes],
          thr \in ThrowChoices :
          FinishForceClose(k, out, thr)
    \/ \E k \in TaskSet : FinishArmExit(k)

\* promises handed back by user callbacks settle
ListenersSettle == \E p \in pendingCbs : SettleListener(p)
ChecksSettle == \E k \in TaskSet, good \in BOOLEAN : SettleCheck(k, good)
HandlersSettle == \E k \in TaskSet : SettleShutdownCb(k)

Time == \E dt \in {TickStep} \cup {timers[i].rem : i \in 1..Len(timers)} : Tick(dt)

\* the program creates its probe routes
\* the `urls` arguments of getProbeRouter: none, or a custom readiness path
Routing ==
    \E urls \in {[k \in {} |-> ""], [k \in {"ready"} |-> CustomReady]} :
        GetProbeRouter(urls)

\* the paths clients ask for: a default probe path and a path of the API,
\* with and without the custom probe path
Paths == {DefaultURLs.ready, "/work"}
AllPaths == Paths \cup {CustomReady}

\* user code calls the methods of a tracker it made itself
TrackerCalls ==
    \/ \E i \in 1..MaxTrackers, thr \in ThrowChoices : TrackerRequestShutdown(i, thr)
    \/ \E i \in 1..MaxTrackers, thr \in ThrowChoices : TrackerForceClose(i, thr)
    \/ \E i \in 1..MaxTrackers, s \in Sock : TrackerOnConnection(i, s)
    \/ \E i \in 1..MaxTrackers, s \in Sock, sent \in BOOLEAN :
          TrackerOnRequest(i, s, "/work", sent)

\* connections and requests reach the hosted servers
Traffic(paths) ==
    \/ \E s \in Sock : Connection(s)
    \/ \E s \in Sock, url \in paths, sent \in BOOLEAN : Request(s, url, sent)
    \/ \E s \in Sock : Finish(s)
    \/ \E s \in Sock : Flush(s)
    \/ \E s \in Sock : Close(s)

\* every operation and event
Next ==
    \/ Registration
    \/ Callbacks
    \/ \E fn \in {ConsoleWarn, "custom"} : SetOnException(fn)
    \/ Probing(TRUE)
    \/ RouterProbing(TRUE)
    \/ LivenessProbing
    \/ SetUnrecoverableError
    \/ UserShutdown(TRUE)
    \/ Signal(TRUE)
    \/ Sequencer(TRUE)
    \/ \E k \in TaskSet : FinishCatch(k)
    \/ UnhandledRejection
    \/ ListenersSettle
    \/ ChecksSettle
    \/ HandlersSettle
    \/ Time
    \/ Routing
    \/ Traffic(AllPaths)
    \/ TrackerCalls
    \/ LoopEmpty

Spec == Init /\ [][Next]_vars

\* the programs the specifications below start from: in production or not,
\* with callbacks and sockets that throw or do not; SHUTDOWN_TIMEOUT is 2 s
\* where the drain is looked at (the deadline falls after the first poll)
\* and 1 s elsewhere (deadline and first poll fall together)
InitDrain == Init /\ ~isDev /\ ClosingTimeout = 2 /\ ~throwers /\ ~destroyThrows
InitProd == Init /\ ~isDev /\ ClosingTimeout = 1 /\ ~throwers /\ ~destroyThrows
InitThrowers == Init /\ ~isDev /\ ClosingTimeout = 1 /\ throwers /\ ~destroyThrows
InitLive == Init /\ ClosingTimeout = 1 /\ ~throwers /\ ~destroyThrows
InitBroken == Init /\ ~isDev /\ ClosingTimeout = 1 /\ ~throwers /\ destroyThrows


\* A pod in production (NODE_ENV = 'production') that serves traffic and is
\* shut down by the host's SIGTERM.
NextDrain ==
    \/ Registration
    \/ AtStartup(OnStateChange /\ stateChangeCbs' <= 1)
    \/ AtStartup(OnShutdown /\ shutdownCbs' <= 1)
    \/ AtStartup(AddShutdownReadyCheck)
    \/ Signal(FALSE)
    \/ Sequencer(FALSE)
    \/ ListenersSettle
    \/ ChecksSettle
    \/ HandlersSettle
    \/ Time
    \/ Traffic(Paths)
    \/ TrackerCalls
    \/ LoopEmpty

SpecDrain == InitDrain /\ [][NextDrain]_vars

\* Readiness probes against a process in production that the host shuts down.
NextProbe ==
    \/ Registration
    \/ AtStartup(OnStateChange)
    \/ AtStartup(OnReadyCheck /\ readyChecks' <= 1)
    \/ Probing(FALSE)
    \/ SetUnrecoverableError
    \/ Signal(FALSE)
    \/ Sequencer(FALSE)
    \/ ListenersSettle
    \/ ChecksSettle
    \/ Time
    \/ LoopEmpty

SpecProbe == InitProd /\ [][NextProbe]_vars

\* User code that calls startShutdown() itself, also from a listener and
\* also more than once; a promise a callback leaves pending stays pending.
NextRestart ==
    \/ AtStartup(OnStateChange)
    \/ AtStartup(OnShutdown /\ shutdownCbs' <= 1)
    \/ UserShutdown(TRUE)
    \/ Signal(TRUE)
    \/ Sequencer(TRUE)
    \/ Time
    \/ LoopEmpty

SpecRestart == InitProd /\ [][NextRestart]_vars

\* A shutdown by SIGTERM of a program whose listeners and handlers may throw.
NextFaulty ==
    \/ Callbacks
    \/ Signal(FALSE)
    \/ Sequencer(FALSE)
    \/ \E k \in TaskSet : FinishCatch(k)
    \/ UnhandledRejection
    \/ ListenersSettle
    \/ ChecksSettle
    \/ HandlersSettle
    \/ Time
    \/ LoopEmpty

SpecFaulty == InitThrowers /\ [][NextFaulty]_vars

\* Liveness probes and unrecoverable faults before and during a shutdown,
\* in production and in development mode.
NextLive ==
    \/ Registration
    \/ AtStartup(OnStateChange /\ stateChangeCbs' <= 1)
    \/ LivenessProbing
    \/ SetUnrecoverableError
    \/ Signal(FALSE)
    \/ Sequencer(FALSE)
    \/ ListenersSettle
    \/ Time
    \/ LoopEmpty

SpecLive == InitLive /\ [][NextLive]_vars


\* A pod in production whose program creates its probe routes, possibly
\* with a custom readiness path, before or after it registers its server.
NextRouter ==
    \/ Registration
    \/ Routing
    \/ Signal(FALSE)
    \/ Sequencer(FALSE)
    \/ Time
    \/ Traffic(AllPaths)
    \/ TrackerCalls
    \/ LoopEmpty

SpecRouter == InitProd /\ [][NextRouter]_vars


\* Readiness probes against a program in production whose callbacks may
\* throw.
NextProbeFaulty ==
    \/ Registration
    \/ AtStartup(OnStateChange)
    \/ AtStartup(OnReadyCheck)
    \/ Probing(FALSE)
    \/ Signal(FALSE)
    \/ Sequencer(FALSE)
    \/ \E k \in TaskSet : FinishCatch(k)
    \/ UnhandledRejection
    \/ ListenersSettle
    \/ ChecksSettle
    \/ Time
    \/ LoopEmpty

SpecProbeFaulty == InitThrowers /\ [][NextProbeFaulty]_vars

\* The same pod probed through the router: GET requests for the readiness
\* URL, with user callbacks that may throw.
NextHandler ==
    \/ Registration
    \/ AtStartup(OnStateChange)
    \/ AtStartup(OnReadyCheck /\ readyChecks' <= 1)
    \/ \E fn \in {ConsoleWarn, "custom"} : SetOnException(fn)
    \/ RouterProbing(FALSE)
    \/ Signal(FALSE)
    \/ Sequencer(FALSE)
    \/ \E k \in TaskSet : FinishCatch(k)
    \/ UnhandledRejection
    \/ ListenersSettle
    \/ ChecksSettle
    \/ Time
    \/ LoopEmpty

SpecHandler == InitThrowers /\ [][NextHandler]_vars


\* A pod in production whose sockets or servers throw when they are
\* destroyed or closed.
NextBroken ==
    \/ Registration
    \/ AtStartup(OnShutdown)
    \/ Signal(FALSE)
    \/ Sequencer(FALSE)
    \/ UnhandledRejection
    \/ HandlersSettle
    \/ Time
    \/ Traffic(Paths)
    \/ TrackerCalls
    \/ LoopEmpty

SpecBroken == InitBroken /\ [][NextBroken]_vars


\* ================================================================ claims
HasTask(fn) == \E k \in TaskSet : k.fn = fn
HasTimer(kind, bound) ==
    \E i \in 1..Len(timers) : timers[i].kind = kind /\ timers[i].rem <= bound

\* C1: while less than phase1DurationMs (1.5 x READYPROBE_INTERVAL x 1000)
\* have passed since startShutdown(), and before it is called, the phase is
\* not Draining or Final and the orchestrator tells no tracker to shut
\* down: isShuttingDown of a registered tracker turns true in no step other
\* than a call the program itself makes on that tracker.  And a tracker
\* whose isShuttingDown is false refuses no request with 503 and has
\* destroyed no socket.
C1_SequencerWaitsPhase1 ==
    /\ []((sinceShutdown = Undef \/ sinceShutdown < Phase1DurationMs)
             => phase \notin {Phase2, Phase3})
    /\ [][((sinceShutdown' = Undef \/ sinceShutdown' < Phase1DurationMs)
            /\ ~direct')
             => \A i \in 1..Len(httpTrackers') :
                   httpTrackers'[i].isShuttingDown
                      => (i <= Len(httpTrackers) /\ httpTrackers[i].isShuttingDown)]_vars
    /\ [](\A s \in Sock :
             (socks[s].refusing \/ socks[s].destroyed)
                => /\ ServerOf(s) <= Len(httpTrackers)
                   /\ httpTrackers[ServerOf(s)].isShuttingDown)

\* C1 witness: 1000 ms after startShutdown(), in ShutdownRequested, a
\* request that is no health check has just been let pass by a tracker that
\* is not shutting down
C1_Witness ==
    /\ phase = Phase1 /\ sinceShutdown = 1000 /\ sinceShutdown < Phase1DurationMs
    /\ \E q \in requested :
          /\ ~q.check /\ q.found /\ ~q.threw
          /\ ~httpTrackers[ServerOf(q.sock)].isShuttingDown
          /\ ~socks[q.sock].refusing /\ ~socks[q.sock].destroyed
          /\ ServingKind(socks, q.sock, "other")

\* C2: phase never moves backward in the order Startup < Running <
\* ShutdownRequested < Draining < Final, whatever is called and however often.
C2_PhaseNeverMovesBackward == [][PhaseOrd(phase') >= PhaseOrd(phase)]_vars

\* C3: a readiness evaluation that begins once shutdown was requested
\* returns not-ready: false, or 503 'Service is closing'.
C3_NotReadyAfterShutdown ==
    \A r \in returned :
        r.began => /\ ~r.healthy
                   /\ r.fn = "checkReadiness" =>
                        r.statusCode = 503 /\ r.message = "Service is closing"

\* C3 witness: such an evaluation has returned while the phase is Draining
C3_Witness ==
    /\ phase = Phase2
    /\ \E r \in returned : r.began /\ ~r.healthy

\* C4: no readiness evaluation returns ready while shutdownRequested is
\* true, also when it began before startShutdown() and was suspended.
C4_NeverReadyOnceRequested ==
    \A r \in returned : r.healthy => ~shutdownRequested

\* C5: within one shutdown the onShutdown handlers are invoked once.
C5_ShutdownHandlersOnce == shutdownCbRuns <= 1

\* C6: forceExitGraceMs after Final was entered the process has exited,
\* also while an onShutdown handler's promise never settles (no listener of
\* a state change is outstanding).
C6_ExitAfterGrace ==
    (sinceFinal # Undef /\ sinceFinal > ForceExitTimeout /\ pendingCbs = {})
        => ~Alive

\* C7: once more than drainTimeoutMs have passed since Draining was
\* entered, phase is Final and the trackers have been force-closed; the step
\* that force-closes them leaves every socket they tracked destroyed.
C7_FinalByDeadline ==
    /\ []((Alive /\ sinceDraining # Undef /\ sinceDraining > DrainTimeoutMs)
            => (phase = Phase3 /\ shutdownCbRuns > 0))
    /\ [][shutdownCbRuns' > shutdownCbRuns =>
            \A i \in 1..Len(httpTrackers) :
               \A e \in httpTrackers[i].connections : socks'[e[2]].destroyed]_vars

\* C8: a second invocation of startShutdown() terminates the process with
\* code -127.
C8_SecondStartExits == starts >= 2 => exitCode = <<-127>>

\* C9: the first SIGTERM starts the graceful shutdown: shutdown is requested
\* and the phase is ShutdownRequested at once and for phase1DurationMs;
\* while the process lives the phase is Draining or Final once more than
\* phase1DurationMs have passed since the signal, and Final once more than
\* drainTimeoutMs have passed since Draining was entered; a second SIGTERM,
\* whenever it arrives, exits with code -127.
C9_SigtermStartsThenExits ==
    /\ sigterms >= 1 => shutdownRequested /\ PhaseOrd(phase) >= PhaseOrd(Phase1)
    /\ (sigterms = 1 /\ sinceShutdown < Phase1DurationMs) => phase = Phase1
    /\ (Alive /\ sinceShutdown # Undef /\ sinceShutdown > Phase1DurationMs)
          => phase \in {Phase2, Phase3}
    /\ (Alive /\ sinceDraining # Undef /\ sinceDraining > DrainTimeoutMs)
          => phase = Phase3
    /\ sigterms >= 2 => exitCode = <<-127>>

\* C10: no listener is invoked for a transition while a listener invoked
\* for an earlier transition is unsettled, within one segment or across
\* segments, and the listeners of one transition all get one (new, old).
C10_FanOutsSerialised ==
    [][fanout' # <<>> =>
          /\ pendingCbs = {}
          /\ \A i, j \in 1..Len(fanout') :
                /\ fanout'[i].t = fanout'[j].t
                /\ fanout'[i].new = fanout'[j].new
                /\ fanout'[i].old = fanout'[j].old]_vars

\* C11: for every transition a step makes, every registered listener is
\* invoked exactly once, and every invocation carries the pair of that
\* transition (the phase entered, the phase left), two different phases.
\* The first listener of a fan-out is called right after phase was assigned,
\* so its pair is the transition's pair.
C11_ListenersGetTheTransition ==
    [][/\ \A t \in (transSeq + 1)..transSeq' : \A l \in 1..stateChangeCbs :
             Cardinality({i \in 1..Len(fanout') :
                             fanout'[i].t = t /\ fanout'[i].idx = l}) = 1
       /\ \A i \in 1..Len(fanout') :
             LET e == fanout'[i]
                 first == fanout'[CHOOSE j \in 1..Len(fanout') :
                                     fanout'[j].t = e.t /\ fanout'[j].idx = 1]
             IN  e.new # e.old /\ e.new = first.new /\ e.old = first.old]_vars

\* C12: also when a listener throws or rejects, every registered listener
\* is invoked for each transition a step makes, and the shutdown sequence
\* goes on: while the process lives, in ShutdownRequested the step to
\* Draining is pending or armed, in Draining the step to Final is.
C12_ListenerFailureContained ==
    /\ [][\A t \in (transSeq + 1)..transSeq' : \A l \in 1..stateChangeCbs :
             \E i \in 1..Len(fanout') :
                fanout'[i].t = t /\ fanout'[i].idx = l]_vars
    /\ []((Alive /\ phase = Phase1) =>
             HasTask("startShutdown") \/ HasTimer("phase2", Phase1DurationMs))
    /\ []((Alive /\ phase = Phase2) =>
             HasTask("shutdownPhase2") \/ HasTimer("deadline", DrainTimeoutMs))

\* C13: when the onShutdown handlers are invoked, all of them are, in
\* registration order, also when one of them throws or rejects; the phase
\* is Final then and stays Final; and afterwards, while the process lives,
\* finishShutdown is about to arm the force-exit timer or has armed it.
C13_ShutdownHandlerFailureContained ==
    /\ [](shutdownCbRuns > 0 => phase = Phase3)
    /\ [][shutdownCbRuns' > shutdownCbRuns =>
             shutdownCbCalls' = [j \in 1..shutdownCbs |-> j]]_vars
    /\ []((Alive /\ shutdownCbRuns > 0) =>
             HasTask("finishShutdown") \/ HasTimer("forceExit", ForceExitTimeout))

\* C14: isHealthy() returns true and checkLiveness() returns 200 'alive'
\* exactly when setUnrecoverableError has never been called, in every phase
\* and whether or not shutdown was requested; the fault, once set, is never
\* cleared.
C14_LivenessFollowsFaultLatch ==
    /\ [](\A r \in liveReturned :
             /\ r.healthy <=> faultCalls = 0
             /\ r.fn = "checkLiveness" =>
                   /\ r.statusCode = 200 <=> faultCalls = 0
                   /\ r.message = "alive" <=> faultCalls = 0)
    /\ [][failCase => failCase']_vars

\* C14 witness: with no fault, liveness is reported healthy in Final
C14_Witness ==
    /\ phase = Phase3 /\ shutdownRequested
    /\ \E r \in liveReturned : r.fn = "checkLiveness" /\ r.statusCode = 200

ShutdownPhases == {Phase1, Phase2, Phase3}

\* C15: shutdownRequested is true exactly when phase is ShutdownRequested,
\* Draining or Final: in every state between two segments, which is what a
\* probe evaluation reads, and at every invocation of a listener, which
\* reads the variable phase it is handed as its first argument.
C15_FlagMatchesPhase ==
    /\ shutdownRequested <=> phase \in ShutdownPhases
    /\ \A i \in 1..Len(fanout) : fanout[i].sr <=> fanout[i].new \in ShutdownPhases

\* C15 witness: a readiness evaluation suspended since Startup returns
\* after shutdown was requested, and the phase is still ShutdownRequested
C15_Witness ==
    /\ phase = Phase1 /\ shutdownRequested
    /\ \E r \in returned : ~r.began /\ r.healthy

\* C16: the phase changes only from Startup to Running, from Startup or
\* Running to ShutdownRequested, from ShutdownRequested to Draining and
\* from Draining to Final.
C16_OnlyAllowedTransitions ==
    [][phase' # phase =>
          <<phase, phase'>> \in {<<Startup, Running>>, <<Startup, Phase1>>,
                                 <<Running, Phase1>>, <<Phase1, Phase2>>,
                                 <<Phase2, Phase3>>}]_vars

\* a step in which a drain poll goes on after its shutdown-ready checks
\* have settled; k is the suspended poll
PollResumes(k) ==
    /\ k \in TaskSet
    /\ k.fn = "shutdownConnectionWatch" /\ k.n = 0
    /\ CopiesIn(k, tasks') < CopiesIn(k, tasks)

\* C17: unless the deadline timer fires, the phase becomes Final only in a
\* drain poll that counted zero active connections over all trackers and
\* whose shutdown-ready checks all returned true; a poll that counted an
\* active connection, or one of whose checks rejected or returned false,
\* leaves the phase as it is and arms the next poll connectionPollMs later.
C17_FinalOnlyByCleanPoll ==
    /\ [][(/\ phase' = Phase3 /\ phase # Phase3
            /\ Cardinality({i \in 1..Len(timers') :
                               timers'[i].kind = "deadline"})
                  >= Cardinality({i \in 1..Len(timers) :
                                    timers[i].kind = "deadline"})) =>
             \E k \in TaskSet : PollResumes(k) /\ k.active = 0 /\ k.ok]_vars
    /\ [][\A k \in TaskSet :
             (PollResumes(k) /\ (k.active > 0 \/ ~k.ok)) =>
                /\ phase' = phase
                /\ \E i \in 1..Len(timers') :
                      /\ timers'[i].kind = "watch"
                      /\ timers'[i].rem = ConnectionCheckInterval
                      /\ timers'[i].id = shutdownWatchTimeout']_vars

\* C17 witness: Final was entered by a poll, the deadline timer is still
\* armed
C17_Witness ==
    /\ phase = Phase3 /\ sinceDraining < DrainTimeoutMs
    /\ HasTimer("deadline", DrainTimeoutMs)

\* C18: a drain poll that counted no active connection and none of whose
\* shutdown-ready checks failed enters Final in the step in which it goes
\* on; with no shutdown-ready check registered and no connection ever
\* tracked, Final is entered exactly connectionPollMs after Draining; and
\* while the phase is Draining a poll is under way, or armed to run within
\* connectionPollMs, or shutdownPhase2 is about to arm it in the microtask
\* that follows the transition.
C18_CleanPollEntersFinal ==
    /\ [][\A k \in TaskSet :
             (PollResumes(k) /\ k.active = 0 /\ k.ok) => phase' = Phase3]_vars
    /\ [][(phase' = Phase3 /\ phase # Phase3 /\ shutdownCheckCbs = 0 /\ nextId' = 0)
             => sinceDraining' = ConnectionCheckInterval]_vars
    /\ []((Alive /\ phase = Phase2) =>
             \/ \E k \in TaskSet : k.fn = "shutdownPhase2" /\ Runnable(k)
             \/ HasTask("shutdownConnectionWatch")
             \/ HasTimer("watch", ConnectionCheckInterval))

\* C19: a connection that is serving a request for a URL that is no
\* health-check URL is not destroyed while its response is unfinished,
\* unless drainTimeoutMs have passed since Draining was entered.
C19_ActiveRequestNotCutOff ==
    \A s \in Sock :
        (ServingKind(socks, s, "other") /\ socks[s].destroyed)
            => (sinceDraining # Undef /\ sinceDraining >= DrainTimeoutMs)

\* the response that arrived last on socket s and is unfinished is one to a
\* health-check request
CurrentIsCheck(sk, s) ==
    sk[s].inflight # <<>> /\ sk[s].inflight[Len(sk[s].inflight)] = "check"

\* C20: a tracker's activeConnectionCount never counts a connection whose
\* current request is for a health-check URL, and a health-check request
\* that arrives during Draining leaves the sum of the counts, which the
\* drain poll reads, as it was.
C20_HealthChecksNotActive ==
    /\ [](\A i \in 1..Len(httpTrackers) :
             activeConnectionCount(httpTrackers[i], socks) <=
                Cardinality({e \in httpTrackers[i].connections :
                                ~CurrentIsCheck(socks, e[2])}))
    /\ [][(phase = Phase2 /\ \E q \in requested' : q.check)
             => TotalActive' = TotalActive]_vars

\* C21: a socket that has been given an id keeps it at every later
\* 'connection' or 'request' event, and no tracker ever holds two records
\* for one socket.
C21_RepeatedEventsIdempotent ==
    /\ [][\A s \in Sock : socks[s].id # Undef => socks'[s].id = socks[s].id]_vars
    /\ [](\A i \in 1..Len(httpTrackers) :
            \A e1, e2 \in httpTrackers[i].connections :
               e1[2] = e2[2] => e1 = e2)

\* C22: no tracker holds a record of a socket that has emitted 'close',
\* connectionCount is the number of tracked sockets that are still open, and
\* once the trackers were force-closed in Final a tracker that is shutting
\* down holds no record.
C22_RecordsRemoved ==
    \A i \in 1..Len(httpTrackers) :
       LET t == httpTrackers[i]
       IN  /\ \A e \in t.connections : socks[e[2]].state = "open"
           /\ connectionCount(t) =
                 Cardinality({s \in Sock : socks[s].state = "open"
                                 /\ \E e \in t.connections : e[2] = s})
           /\ (shutdownCbRuns > 0 /\ t.isShuttingDown) => t.connections = {}

\* C23: the step of finishShutdown that calls forceClose() on every tracker
\* leaves each of them with an empty map, shutting down and not listening,
\* and every socket that was in a map has had destroy() called, whether it
\* was idle, serving a request or serving a health check.
C23_ForceCloseClosesAll ==
    [][shutdownCbRuns' > shutdownCbRuns =>
         \A i \in 1..Len(httpTrackers) :
            /\ \A e \in httpTrackers[i].connections : socks'[e[2]].destroyed
            /\ httpTrackers'[i].connections = {}
            /\ httpTrackers'[i].isShuttingDown
            /\ ~httpTrackers'[i].listening]_vars

\* C23 witness: the trackers were force-closed while a socket was serving a
\* health-check request; it is destroyed with its response unfinished
C23_Witness ==
    /\ shutdownCbRuns > 0
    /\ \E s \in Sock :
          /\ socks[s].state = "open" /\ ServingKind(socks, s, "check")
          /\ socks[s].destroyed
          /\ httpTrackers[ServerOf(s)].connections = {}

\* the tracker of socket s holds a record of it
Tracked(ts, s) == \E e \in ts[ServerOf(s)].connections : e[2] = s

\* C24: a request that reaches a tracker that is shutting down is refused
\* with 503 'Closing' when its URL is not a health-check URL: no record of
\* its socket is left in the map by that step, the socket is never counted
\* active, and it is destroyed when the refusal is flushed. A request for a
\* health-check URL is served, and its socket is destroyed only when its
\* response finishes or when the trackers are force-closed.
C24_RefusedWhileShuttingDown ==
    /\ [][\A q \in requested' :
            LET s == q.sock
            IN  httpTrackers[ServerOf(s)].isShuttingDown
                => IF q.check
                   THEN /\ socks'[s].inflight = Append(socks[s].inflight, "check")
                        /\ ~socks'[s].destroyed
                   ELSE /\ socks'[s].refusing
                        /\ socks'[s].inflight = socks[s].inflight
                        /\ ~Tracked(httpTrackers', s)]_vars
    /\ [][\A s \in Sock :
            (socks[s].refusing /\ ~socks'[s].refusing /\ socks'[s].state = "open")
            => socks'[s].destroyed]_vars
    /\ [][\A s \in Sock :
            (/\ ServingKind(socks, s, "check")
             /\ ~socks[s].destroyed /\ socks'[s].destroyed)
            => \/ ~ServingKind(socks', s, "check")
               \/ shutdownCbRuns' > shutdownCbRuns]_vars
    /\ [](\A s \in Sock : socks[s].refusing =>
            \A i \in 1..Len(httpTrackers) :
               activeConnectionCount(httpTrackers[i], socks) = 0
               \/ \A e \in httpTrackers[i].connections :
                     e[2] = s => (socks[s].idle \/ socks[s].isCheck))

\* C25: during Draining a request for a path that is configured as a probe
\* path at that moment is classified as a health check by the tracker of
\* its server and, when the tracker knows the socket, is let pass.
C25_ProbePathsNeverRefused ==
    [][\A q \in requested' :
         (phase = Phase2 /\ q.url \in ObjectValues(HealthCheckURLs))
         => /\ q.check
            /\ q.found => (socks'[q.sock].isCheck
                            /\ CurrentIsCheck(socks', q.sock))]_vars

\* every registered server is listening
AllListening == \A i \in 1..Len(httpTrackers) : httpTrackers[i].listening

\* C26: checkReadiness() answers with the first outcome that matches, each
\* test being made when the evaluation reaches it: at the call, a fault or
\* shutdownRequested gives 503 'Service is closing', else no registered
\* server gives 503 'Server not ready'; when the ready-checks have settled,
\* one that did not fulfil with true gives 503 'Ready check(s) failed', else
\* a server that is not listening gives 503 'HTTP server not ready', else
\* the answer is 200 'ready'.
C26_ReadinessOutcomeOrder ==
    [][/\ (probes' > probes /\ (Closing \/ Len(httpTrackers) = 0))
            => returned' # {}
       /\ (probes' > probes /\ ~Closing /\ Len(httpTrackers) > 0)
            => returned' = {}
       /\ \A r \in returned' : r.fn = "checkReadiness" =>
            /\ r.healthy <=> r.statusCode = 200
            /\ ~r.healthy <=> r.statusCode = 503
            /\ r.healthy <=> r.message = "ready"
            /\ IF probes' > probes
               THEN r.message = IF Closing THEN "Service is closing"
                                ELSE "Server not ready"
               ELSE \E k \in TaskSet :
                      /\ k.fn = "checkReadiness"
                      /\ CopiesIn(k, tasks') < CopiesIn(k, tasks)
                      /\ r.message =
                           IF k.pc = "phase" THEN "ready"
                           ELSE IF ~k.ok THEN "Ready check(s) failed"
                           ELSE IF ~AllListening THEN "HTTP server not ready"
                           ELSE "ready"]_vars

\* C26 witness: checkReadiness() answered 'Ready check(s) failed' although a
\* registered server is not listening either
C26_Witness ==
    /\ ~AllListening
    /\ \E r \in returned :
          /\ r.fn = "checkReadiness" /\ r.statusCode = 503
          /\ r.message = "Ready check(s) failed"

\* C27: a call of isReady() or checkReadiness() that reaches the
\* ready-checks invokes every one of them and gives the caller a value,
\* never an exception; when a ready-check did not fulfil with true the
\* value is false / 503 'Ready check(s) failed'.
C27_ReadyCheckFailureContained ==
    [][/\ (probes' > probes /\ ~Closing /\ Len(httpTrackers) > 0)
            => Len(readyCheckCalls') = readyChecks
       /\ probes' > probes => \A r \in returned' : ~r.rejected
       /\ \A k \in TaskSet :
            (/\ k.fn \in ReadinessFns /\ k.pc = "checks" /\ ~k.ok
             /\ CopiesIn(k, tasks') < CopiesIn(k, tasks)
             /\ k.n = 0)
            => returned' = {Result(k.fn, FALSE, "Ready check(s) failed", k.began)}]_vars

\* C28: a call of setUnrecoverableError sets the fault; in production
\* (NODE_ENV = 'production') it leaves the phase, shutdownRequested, the
\* trackers and their sockets, the timers, the suspended calls and the
\* process alone, and otherwise it exits the process with code 1.
C28_FaultOnlySetsFault ==
    [][faultCalls' > faultCalls =>
         /\ failCase'
         /\ IF isDev
            THEN exitCode' = <<1>>
            ELSE UNCHANGED <<phase, shutdownRequested, httpTrackers, socks,
                             timers, shutdownWatchTimeout, tasks, pendingCbs,
                             exitCode, intCalled, transSeq, starts>>]_vars

\* C28 witness: in production the fault was set while the drain was under
\* way, and the drain goes on with its deadline armed
C28_Witness ==
    /\ ~isDev /\ faultCalls > 0 /\ failCase /\ Alive
    /\ phase = Phase2 /\ Len(httpTrackers) > 0
    /\ HasTimer("deadline", DrainTimeoutMs)

\* C29: whatever destroy() and close() do inside the trackers, while the
\* phase is Draining the hard deadline and the drain poll are armed (or
\* shutdownPhase2 is still awaiting the listeners), no step of
\* finishShutdown ends the process through its catch block without having
\* invoked the onShutdown handlers, and in Final the force-exit timer is
\* armed or finishShutdown is still on its way to arming it.
C29_TrackerFailureContained ==
    /\ []((Alive /\ phase = Phase2) =>
            \/ HasTask("shutdownPhase2")
            \/ /\ HasTimer("deadline", DrainTimeoutMs)
               /\ \/ HasTimer("watch", ConnectionCheckInterval)
                  \/ HasTask("shutdownConnectionWatch"))
    /\ [][(/\ Alive /\ exitCode' = <<CatchExitCode>>
            /\ \E k \in TaskSet : /\ k.fn = "finishShutdown"
                                  /\ CopiesIn(k, tasks') < CopiesIn(k, tasks))
           => shutdownCbRuns' > shutdownCbRuns]_vars
    /\ []((Alive /\ phase = Phase3) =>
            HasTask("finishShutdown") \/ HasTimer("forceExit", ForceExitTimeout))

\* the drain polls under way: calls of shutdownConnectionWatch suspended at
\* their await
PollsUnderWay ==
    LET S == {k \in TaskSet : k.fn = "shutdownConnectionWatch"}
        RECURSIVE Sum(_)
        Sum(T) == IF T = {} THEN 0
                  ELSE LET k == CHOOSE x \in T : TRUE
                       IN  CopiesIn(k, tasks) + Sum(T \ {k})
    IN  Sum(S)

\* C30: in Final no poll timer is armed, and no step taken in Final begins a
\* poll (which would invoke the shutdown-ready checks again) or arms its
\* timer, also when a poll was suspended at its await when Final was
\* entered.
C30_NoPollAfterFinal ==
    /\ [](phase = Phase3 => ~HasTimer("watch", ConnectionCheckInterval))
    /\ [][phase = Phase3 =>
            /\ PollsUnderWay' <= PollsUnderWay
            /\ ~HasTimer("watch", ConnectionCheckInterval)']_vars

\* C31: the step that invokes the onShutdown handlers is taken in Final,
\* with no listener of the transition to Final unsettled and with every
\* registered tracker force-closed; and while the force-exit timer is armed
\* no promise of an onShutdown handler is unsettled.
C31_HandlersAfterFinalAndForceClose ==
    /\ [][shutdownCbRuns' > shutdownCbRuns =>
            /\ phase' = Phase3
            /\ \A p \in pendingCbs' : p.t # transSeq'
            /\ \A i \in 1..Len(httpTrackers') :
                  /\ httpTrackers'[i].isShuttingDown
                  /\ ~httpTrackers'[i].listening
                  /\ httpTrackers'[i].connections = {}]_vars
    /\ [](HasTimer("forceExit", ForceExitTimeout) =>
            \A k \in TaskSet : ~(k.fn = "finishShutdown" /\ k.pc = "cbs" /\ k.n > 0))

\* C32: the step of shutdownPhase2 that calls requestShutdown() on the
\* trackers leaves each of them shutting down and listening as before; the
\* records of the connections idle at that moment are gone and their sockets
\* destroyed, every other record is still there and its socket untouched.
C32_RequestShutdownClosesIdleOnly ==
    [][(\E k \in TaskSet : k.fn = "shutdownPhase2"
                            /\ CopiesIn(k, tasks') < CopiesIn(k, tasks))
       => \A i \in 1..Len(httpTrackers) :
            /\ httpTrackers'[i].isShuttingDown
            /\ httpTrackers'[i].listening = httpTrackers[i].listening
            /\ httpTrackers'[i].connections \subseteq httpTrackers[i].connections
            /\ \A e \in httpTrackers[i].connections :
                  IF socks[e[2]].idle
                  THEN /\ socks'[e[2]].destroyed
                       /\ e \notin httpTrackers'[i].connections
                  ELSE /\ e \in httpTrackers'[i].connections
                       /\ socks'[e[2]] = socks[e[2]]]_vars

\* C32 witness: during Draining a connection that was serving a request
\* when requestShutdown() ran is still tracked, undestroyed and serving, and
\* its server still listens
C32_Witness ==
    /\ phase = Phase2
    /\ \E s \in Sock :
          /\ ServerOf(s) <= Len(httpTrackers)
          /\ Tracked(httpTrackers, s)
          /\ httpTrackers[ServerOf(s)].isShuttingDown
          /\ httpTrackers[ServerOf(s)].listening
          /\ ServingKind(socks, s, "other")
          /\ ~socks[s].idle /\ ~socks[s].destroyed

\* C33: when the response on a connection finishes, the connection is idle
\* again and its socket is destroyed exactly when its tracker is shutting
\* down; a request never arrives at a tracker that is shutting down on a
\* connection that has already had a response finish or a refusal flushed
\* under that shutdown. No request comes in over a destroyed socket: the
\* only request handled for one is a request the program itself hands to
\* onRequest, and a tracker that is shutting down does not take that one
\* into service either.
C33_NoKeepAliveWhileShuttingDown ==
    /\ [][\A s \in Sock :
            (/\ Serving(socks, s) /\ ~socks[s].destroyed
             /\ Len(socks'[s].inflight) < Len(socks[s].inflight)
             /\ socks'[s].state = "open")
            => /\ socks'[s].idle
               /\ socks'[s].destroyed <=> httpTrackers[ServerOf(s)].isShuttingDown]_vars
    /\ [][\A q \in requested' :
            socks[q.sock].destroyed
            => /\ direct'
               /\ httpTrackers[ServerOf(q.sock)].isShuttingDown
                  => socks'[q.sock].inflight = socks[q.sock].inflight]_vars
    /\ [](\A s \in Sock :
            (/\ ServerOf(s) <= Len(httpTrackers)
             /\ httpTrackers[ServerOf(s)].isShuttingDown
             /\ Tracked(httpTrackers, s)
             /\ socks[s].state = "open" /\ ~Serving(socks, s)
             /\ socks[s].isCheck)
            => socks[s].destroyed)

\* C33 witness: during Draining a connection whose response finished is
\* idle and destroyed, its record still in the map until it closes
C33_Witness ==
    /\ phase = Phase2
    /\ \E s \in Sock :
          /\ ServerOf(s) <= Len(httpTrackers)
          /\ httpTrackers[ServerOf(s)].isShuttingDown
          /\ Tracked(httpTrackers, s)
          /\ socks[s].state = "open" /\ ~Serving(socks, s)
          /\ socks[s].idle /\ socks[s].destroyed

\* C34: the phase never returns to Startup; the listeners are told of a
\* transition to Running only by a step taken in Startup, once each and with
\* Startup as the old phase; a readiness evaluation that resumes in another
\* phase makes no transition and fires no listener; and no listener is ever
\* told of a transition from a phase to itself.
C34_RunningEnteredOnce ==
    /\ [][phase # Startup => phase' # Startup]_vars
    /\ [][\A i \in 1..Len(fanout') :
            /\ fanout'[i].new # fanout'[i].old
            /\ fanout'[i].new = Running =>
                 /\ phase = Startup /\ fanout'[i].old = Startup
                 /\ \A j \in 1..Len(fanout') :
                      (fanout'[j].new = Running /\ fanout'[j].idx = fanout'[i].idx)
                      => j = i]_vars
    /\ [][(/\ phase # Startup
           /\ \E k \in TaskSet : /\ k.fn \in ReadinessFns
                                 /\ CopiesIn(k, tasks') < CopiesIn(k, tasks))
          => (transSeq' = transSeq /\ fanout' = <<>>)]_vars

\* C34 witness: of two readiness evaluations under way at once, one made
\* the transition to Running and still awaits its listeners, the other has
\* returned ready without a transition of its own
C34_Witness ==
    /\ phase = Running /\ transSeq = 1 /\ probes = 2 /\ fanout = <<>>
    /\ \E r \in returned : r.healthy
    /\ \E k \in TaskSet : k.fn \in ReadinessFns /\ k.pc = "phase"

\* C35: when an evaluation resumes after the ready-checks, the test of
\* isReady() and the tests of checkReadiness() agree on the state and the
\* check outcomes it resumes with, and whichever of the two functions it is,
\* it returns not-ready exactly when they fail, makes the transition to
\* Running exactly when they pass in Startup, and returns ready (true, or
\* healthy with 200) when they pass in another phase or after that
\* transition.
C35_IsReadyAgreesWithCheckReadiness ==
    /\ [][\A k \in TaskSet :
            (/\ k.fn \in ReadinessFns /\ k.pc = "checks"
             /\ CopiesIn(k, tasks') < CopiesIn(k, tasks) /\ k.n = 0)
            => LET passI == IsReadyPassed(k.ok, AllListening)
                   passC == Verdict(k.ok, AllListening) = "ready"
               IN  /\ passI <=> passC
                   /\ ~passC => /\ returned' # {}
                                /\ \A r \in returned' : r.fn = k.fn /\ ~r.healthy
                                /\ transSeq' = transSeq
                   /\ (passC /\ phase = Startup) =>
                         /\ returned' = {}
                         /\ phase' = Running /\ transSeq' = transSeq + 1
                   /\ (passC /\ phase # Startup) =>
                         /\ returned' # {}
                         /\ \A r \in returned' : r.fn = k.fn /\ r.healthy
                         /\ transSeq' = transSeq]_vars
    /\ [](\A r \in returned :
            /\ r.fn = "checkReadiness" => (r.healthy <=> r.statusCode = 200)
            /\ r.fn = "isReady" => r.message = "")

\* C35 witness: isReady() has returned true while a checkReadiness() that
\* passed the same tests is making the transition to Running
C35_Witness ==
    /\ \E r \in returned : r.fn = "isReady" /\ r.healthy
    /\ \E k \in TaskSet : k.fn = "checkReadiness" /\ k.pc = "phase"

\* C36: an exception thrown during the readiness evaluation is caught by the
\* router's readiness handler, reported to the exception sink and answered
\* with 500 'Unexpected error'; it never escapes the handler, and the step
\* of the evaluation that throws changes neither phase nor shutdownRequested.
C36_HandlerCatchesEvaluationErrors ==
    [][/\ \A r \in returned' : r.fn = HandlerFn => ~r.rejected
       /\ \A k \in BagToSet(tasks') :
            (/\ k.fn = HandlerFn /\ CopiesIn(k, tasks') > CopiesIn(k, tasks)
             /\ \/ k.pc = "threw"
                \/ k.pc = "answer" /\ k.res.rejected)
            => /\ phase' = phase
               /\ shutdownRequested' = shutdownRequested
       /\ \A k \in TaskSet :
            (/\ k.fn = HandlerFn /\ k.pc = "answer" /\ k.res.rejected
             /\ CopiesIn(k, tasks') < CopiesIn(k, tasks))
            => returned' = {Caught(k.began)}
       /\ \A r \in returned' :
            (r.fn = HandlerFn /\ r.statusCode = 500)
            => r.reported # NoSink /\ r.message = "Unexpected error"]_vars

\* a timer of the given kind is armed
Armed(kind) == \E i \in 1..Len(timers) : timers[i].kind = kind

\* C37: a state-change listener whose promise never settles does not block
\* the shutdown sequence: while one is outstanding and nothing else is left
\* to run, the step that leads to the next phase is scheduled (the Phase-2
\* timer in ShutdownRequested, the deadline in Draining, the handlers or the
\* force-exit timer in Final).
C37_StuckListenerAbandoned ==
    (Alive /\ ~MicrotaskPending /\ pendingCbs # {}) =>
        /\ phase = Phase1 => Armed("phase2")
        /\ phase = Phase2 => Armed("deadline")
        /\ phase = Phase3 =>
              \/ Armed("forceExit")
              \/ \E k \in TaskSet : k.fn = "finishShutdown" /\ k.pc = "cbs"

\* C38: whenever phase is Draining or Final and shutdownPhase2 has gone
\* through its loop over the trackers, every tracker of the server list is
\* shutting down, trackers registered after shutdown began included; and
\* isShuttingDown, once true, is never reset.
C38_TrackersShuttingDown ==
    [][/\ (/\ phase' \in {Phase2, Phase3}
           /\ ~\E k \in BagToSet(tasks') : k.fn = "shutdownPhase2")
            => \A i \in 1..Len(httpTrackers') : httpTrackers'[i].isShuttingDown
       /\ \A i \in 1..Len(httpTrackers) :
            httpTrackers[i].isShuttingDown => httpTrackers'[i].isShuttingDown]_vars

\* the sum of activeConnectionCount, read in trackers ts and sockets sk,
\* over the trackers that are shutting down in sel
ActiveAmong(sel, ts, sk) ==
    LET RECURSIVE Sum(_)
        Sum(i) == IF i = 0 THEN 0
                  ELSE Sum(i - 1) + IF sel[i].isShuttingDown
                                    THEN activeConnectionCount(ts[i], sk)
                                    ELSE 0
    IN  Sum(Len(sel))

\* C39: over the trackers that have received requestShutdown() the sum of
\* activeConnectionCount never increases, and a drain poll that read a zero
\* count and decides to finish the shutdown does so while the count over the
\* registered trackers is still zero.
C39_ZeroCountStillZero ==
    [][/\ ActiveAmong(httpTrackers, httpTrackers', socks')
             <= ActiveAmong(httpTrackers, httpTrackers, socks)
       /\ \A k \in TaskSet :
            (/\ k.fn = "shutdownConnectionWatch" /\ DrainDone(k)
             /\ CopiesIn(k, tasks') < CopiesIn(k, tasks))
            => TotalActive = 0]_vars

====
